---- MODULE Spec2Model ----
(***************************************************************************)
(* A model of the tokenizer engine (src/src/tokenizer.rs) and of the       *)
(* document container driver (src/src/construct/document.rs).              *)
(*                                                                         *)
(* Spec     the engine: feed_impl drives anonymous state functions, which  *)
(*          call enter / exit / consume, start attempts and checks, and    *)
(*          return State::Fn, State::Ok or State::Nok.                     *)
(*                                                                         *)
(* SpecPosition  the position of a tokenizer: any caller's expect,         *)
(*          consume and define_skip.                                       *)
(*                                                                         *)
(* SpecDocument  the document driver over every input of the bounded      *)
(*          alphabet; SpecDocumentFair is the same with the driver always  *)
(*          taking its next step; SpecAll is the engine and the driver;    *)
(*          SpecNest is the driver on longer inputs without fenced code.   *)
(*                                                                         *)
(* SpecTokens  any caller's enter and exit around the codes it consumes.  *)
(*                                                                         *)
(* SpecResolvers  the engine with state functions that register           *)
(*          resolvers, which Tokenizer::push runs as it drains.            *)
(*                                                                         *)
(* SpecResolve  the end of resolve: the resolvers and definitions of the  *)
(*          child are appended to those of the document.                   *)
(*                                                                         *)
(* SpecLineEnding  the line ending of the rendered output.                *)
(*                                                                         *)
(* SpecSkip  the line-start skip that one tokenizer defines on another.   *)
(*                                                                         *)
(* SpecNested  the engine with attempts made inside attempts.             *)
(*                                                                         *)
(* SpecOpt  skip::opt and skip::opt_back on well-nested lists of events.  *)
(*                                                                         *)
(* Codes are strings: "None" is Code::None (eof), "CRLF" is                *)
(* Code::CarriageReturnLineFeed, "VS" is Code::VirtualSpace, "LF" is       *)
(* Code::Char('\n'), "CR" is Code::Char('\r'); any other string is a       *)
(* Code::Char.  An Option is a sequence of length 0 (None) or 1 (Some).    *)
(* Indices into vectors are the 0-based indices of the source.             *)
(***************************************************************************)
EXTENDS Integers, Sequences, FiniteSets, TLC

VARIABLES
    codes,      \* the codes handed to Tokenizer::push
    tokenizer,  \* the Tokenizer
    frames,     \* the call stack of feed_impl loops and attempt_impl wrappers
    pc,         \* where the engine stands: "feed", "run", "ret", "done", "panic"
    ret,        \* the StateFnResult travelling up the call stack
    rp,         \* the frame of `frames` that receives `ret`
    attempts,   \* how many attempts and checks were made so far
    calls,      \* how many times enter and exit were called so far
    panic,      \* the message of the assertion that failed ("" when none did)
    last,       \* the last call made on the tokenizer's position, and the tokenizer before it
    doc         \* the document driver: its tokenizer, its child and its tokenize_state

vars ==
    <<codes, tokenizer, frames, pc, ret, rp, attempts, calls, panic, last, doc>>

(***************************************************************************)
(* Bounds of the model.                                                    *)
(***************************************************************************)
MaxLen == 2
MaxCalls == 3
MaxAttempts == 1

\* Codes the engine is fed, and token types the state functions use.
Alphabet == {"a", "LF"}
Names == {"A", "B"}

Seqs(S, n) == UNION {[1..k -> S] : k \in 0..n}
Last(s) == s[Len(s)]
Front(s) == SubSeq(s, 1, Len(s) - 1)
Min(a, b) == IF a < b THEN a ELSE b
\* Vec::truncate: nothing happens when the vector is no longer than n.
truncate(s, n) == SubSeq(s, 1, Min(Len(s), n))

(***************************************************************************)
(* Tokenizer: the data.                                                    *)
(***************************************************************************)
Point(line, column, offset) == [line |-> line, column |-> column, offset |-> offset]

Event(event_type, token_type, point, index, content_type) ==
    [event_type |-> event_type, token_type |-> token_type, point |-> point,
     index |-> index, previous |-> <<>>, next |-> <<>>,
     content_type |-> content_type]

\* Tokenizer::new.  A resolver is the closure passed to register_resolver or
\* register_resolver_before: [id, call], the id it was passed with and the
\* number of the call that passed it.  registered and resolved are history:
\* the calls that registered, [id, before], and the resolvers run, in order.
new(point, index) ==
    [previous |-> "None", current |-> "None", column_start |-> [line \in {} |-> 1],
     index |-> index, consumed |-> TRUE, drained |-> FALSE, point |-> point,
     stack |-> <<>>, events |-> <<>>, interrupt |-> FALSE, lazy |-> FALSE,
     resolvers |-> <<>>, resolver_ids |-> <<>>,
     registered |-> <<>>, resolved |-> <<>>]

(***************************************************************************)
(* Tokenizer: the operations.  Each assertion of the source is a predicate *)
(* X_asserts; the caller goes to "panic" when it is false.                 *)
(***************************************************************************)
Contains(s, x) == \E i \in 1..Len(s) : s[i] = x

\* A registration that does not look at resolver_ids.
register_resolver_again(t, id, resolver) ==
    [t EXCEPT !.resolver_ids = Append(@, id),
              !.resolvers = Append(@, resolver)]

register_resolver(t, id, resolver) ==
    IF ~Contains(t.resolver_ids, id)
    THEN [t EXCEPT !.resolver_ids = Append(@, id),
                   !.resolvers = Append(@, resolver)]
    ELSE t

register_resolver_before(t, id, resolver) ==
    IF ~Contains(t.resolver_ids, id)
    THEN [t EXCEPT !.resolver_ids = Append(@, id),
                   !.resolvers = <<resolver>> \o @]
    ELSE t

\* The loop of Tokenizer::push over the resolvers: the first is taken off
\* and run, until none is left.  A resolver here gives the events back as
\* they are and registers nothing.
RECURSIVE run_resolvers(_)
run_resolvers(t) ==
    IF t.resolvers = <<>> THEN t
    ELSE run_resolvers([t EXCEPT !.resolvers = Tail(@),
                                 !.resolved = Append(@, Head(t.resolvers))])

\* A drain that leaves the resolvers where they are.
push_drained_only(t) == [t EXCEPT !.drained = TRUE]

\* Tokenizer::push after feed_impl has returned, when drain is set.
push_drained(t) == run_resolvers([t EXCEPT !.drained = TRUE])

expect_asserts(t) == t.consumed

expect(t, code) == [t EXCEPT !.consumed = FALSE, !.current = code]

\* A skip that is applied wherever the tokenizer stands on the line.
account_for_potential_skip_anywhere(t) ==
    IF t.point.line \in DOMAIN t.column_start
    THEN LET col == t.column_start[t.point.line]
         IN  [t EXCEPT !.point.column = col,
                       !.point.offset = @ + (col - 1),
                       !.index = @ + (col - 1)]
    ELSE t

account_for_potential_skip(t) ==
    IF t.point.column = 1 /\ t.point.line \in DOMAIN t.column_start
    THEN LET col == t.column_start[t.point.line]
         IN  [t EXCEPT !.point.column = col,
                       !.point.offset = @ + (col - 1),
                       !.index = @ + (col - 1)]
    ELSE t

\* A consume that does not look at `consumed`.
consume_asserts_code_only(t, code) ==
    IF code # t.current THEN "expected given code to equal expected code"
    ELSE ""

consume_asserts(t, code) ==
    IF code # t.current THEN "expected given code to equal expected code"
    ELSE IF t.consumed THEN "expected code to not have been consumed"
    ELSE ""

\* A consume that counts the pair of carriage return and line feed as one byte.
consume_crlf_as_one(t, code) ==
    LET moved ==
            IF code \in {"CRLF", "LF", "CR"}
            THEN account_for_potential_skip(
                     [t EXCEPT !.point = Point(@.line + 1, 1, @.offset + 1)])
            ELSE IF code = "VS" THEN t
            ELSE [t EXCEPT !.point.column = @ + 1, !.point.offset = @ + 1]
    IN  [moved EXCEPT !.index = @ + 1, !.previous = code, !.consumed = TRUE]

consume(t, code) ==
    LET moved ==
            IF code \in {"CRLF", "LF", "CR"}
            THEN account_for_potential_skip(
                     [t EXCEPT !.point = Point(@.line + 1, 1,
                                  @.offset + (IF code = "CRLF" THEN 2 ELSE 1))])
            ELSE IF code = "VS" THEN t
            ELSE [t EXCEPT !.point.column = @ + 1, !.point.offset = @ + 1]
    IN  [moved EXCEPT !.index = @ + 1, !.previous = code, !.consumed = TRUE]

enter_with_content(t, token_type, content_type) ==
    [t EXCEPT !.events = Append(@, Event("Enter", token_type, t.point, t.index,
                                         content_type)),
              !.stack = Append(@, token_type)]

enter(t, token_type) == enter_with_content(t, token_type, <<>>)

exit_asserts(t, token_type) ==
    IF t.stack = <<>> THEN "cannot close w/o open tokens"
    ELSE IF Last(t.stack) # token_type
    THEN "expected exit token to match current token"
    ELSE IF t.events = <<>> THEN "cannot close w/o open event"
    ELSE IF Last(t.stack) = Last(t.events).token_type
            /\ Last(t.events).index = t.index
    THEN "expected non-empty token"
    ELSE ""

\* An exit that leaves the name on the stack.
exit_keeps_stack(t, token_type) ==
    [t EXCEPT !.events = Append(@, Event("Exit", token_type, t.point, t.index,
                                         <<>>))]

exit(t, token_type) ==
    [t EXCEPT !.stack = Front(@),
              !.events = Append(@, Event("Exit", token_type, t.point, t.index,
                                         <<>>))]

\* InternalState
capture(t) ==
    [index |-> t.index, previous |-> t.previous, current |-> t.current,
     point |-> t.point, events_len |-> Len(t.events),
     stack_len |-> Len(t.stack)]

\* A rollback that does not look at the stack.
free_asserts_events_only(t, previous) ==
    IF Len(t.events) < previous.events_len
    THEN "expected to restore less events than before"
    ELSE ""

free_asserts(t, previous) ==
    IF Len(t.events) < previous.events_len
    THEN "expected to restore less events than before"
    ELSE IF Len(t.stack) < previous.stack_len
    THEN "expected to restore less stack items than before"
    ELSE ""

\* A rollback that forgets the point.
free_keeps_point(t, previous) ==
    [t EXCEPT !.index = previous.index,
              !.previous = previous.previous,
              !.current = previous.current,
              !.events = truncate(@, previous.events_len),
              !.stack = truncate(@, previous.stack_len)]

\* A rollback that leaves on the stack what was opened since the capture.
free_keeps_stack(t, previous) ==
    [t EXCEPT !.index = previous.index,
              !.previous = previous.previous,
              !.current = previous.current,
              !.point = previous.point,
              !.events = truncate(@, previous.events_len)]

free(t, previous) ==
    [t EXCEPT !.index = previous.index,
              !.previous = previous.previous,
              !.current = previous.current,
              !.point = previous.point,
              !.events = truncate(@, previous.events_len),
              !.stack = truncate(@, previous.stack_len)]

\* The `done` closure of Tokenizer::attempt and of Tokenizer::check: what it
\* does to the tokenizer, and the codes it hands to feed_impl.  result0 are
\* the codes captured, result1 the remainder.
attempt_done(t, previous, ok) == IF ok THEN t ELSE free(t, previous)

\* An attempt that feeds all the codes captured again, whatever the outcome.
attempt_codes_all(result0, result1, ok) == result0

attempt_codes(result0, result1, ok) == IF ok THEN result1 ELSE result0

\* A check that keeps what a successful state function did.
check_done_keeps_ok(t, previous, ok) == IF ok THEN t ELSE free(t, previous)

check_done(t, previous, ok) == free(t, previous)

check_codes(result0, result1, ok) == result0

\* check_statefn_result: an eof handed back is dropped.
check_statefn_result(remainder) ==
    IF remainder # <<>> /\ Last(remainder) = "None" THEN Front(remainder)
    ELSE remainder

(***************************************************************************)
(* The call stack.  A "feed" frame is one running feed_impl loop: its      *)
(* codes, its index into them, the state it holds and the code it is       *)
(* passing.  An "attempt" or "check" frame is one attempt_impl wrapper:    *)
(* the InternalState captured, the codes captured so far.  The wrappers    *)
(* above a feed frame are the State::Fn that frame holds.  at_call, seen   *)
(* and clean record history for the properties: the tokenizer when the     *)
(* attempt was made, the codes passed through the wrapper, and whether no  *)
(* token opened before the attempt was closed in it; unclean, on the first *)
(* frame, whether an attempt that was not clean has been rolled back;      *)
(* committed whether an attempt made inside this one has ended in Ok, and  *)
(* nested whether the attempt was made inside another.                     *)
(*                                                                         *)
(* The engine's own steps are deterministic, so they are operators on a    *)
(* configuration c = [tokenizer, frames, pc, ret, rp, panic].              *)
(***************************************************************************)
FeedFrame(cs, drain, origin) ==
    [kind |-> "feed", codes |-> cs, index |-> 0, state |-> "Fn",
     drain |-> drain, code |-> "None", fresh |-> TRUE, origin |-> origin]

WrapFrame(kind, t, seen) ==
    [kind |-> kind, previous |-> capture(t), codes |-> <<>>,
     at_call |-> t, seen |-> seen, clean |-> TRUE, committed |-> FALSE]

IsWrap(f) == f.kind \in {"attempt", "check"}

\* The feed_impl loop that is running: the topmost feed frame.
TopFeed(fs) ==
    CHOOSE i \in 1..Len(fs) :
        fs[i].kind = "feed" /\ \A j \in (i + 1)..Len(fs) : fs[j].kind # "feed"

\* The feed_impl loop whose code the frame at p is handling.
FeedBelow(fs, p) ==
    CHOOSE i \in 1..p :
        fs[i].kind = "feed" /\ \A j \in (i + 1)..p : fs[j].kind # "feed"

Remove(s, i) == SubSeq(s, 1, i - 1) \o SubSeq(s, i + 1, Len(s))

NoResult == [state |-> "Fn", remainder |-> <<>>]

\* An assertion fails: the parse is over.
Panic(c, msg) ==
    [c EXCEPT !.pc = "panic", !.panic = msg, !.ret = NoResult]

\* One turn of a feed_impl loop: pass the next code, or yield to the caller
\* (`if !drain`), or pass eof, or end (the final state must be State::Ok).
\* Only Tokenizer::push calls it with drain set: as it ends, push goes on.
feed_impl(c) ==
    LET fp == TopFeed(c.frames)
        F == c.frames[fp]
        more == F.state = "Fn" /\ F.index < Len(F.codes)
        code == IF more THEN F.codes[F.index + 1] ELSE "None"
    IN  IF more \/ (F.drain /\ F.state = "Fn")
        THEN IF ~expect_asserts(c.tokenizer)
             THEN Panic(c, "expected previous character to be consumed")
             ELSE [c EXCEPT
                     !.tokenizer = expect(c.tokenizer, code),
                     !.frames =
                        [i \in 1..Len(c.frames) |->
                           IF i = fp
                           THEN [F EXCEPT !.code = code, !.fresh = FALSE]
                           ELSE IF i > fp /\ code # "None"
                           THEN [c.frames[i] EXCEPT !.seen = Append(@, code)]
                           ELSE c.frames[i]],
                     !.pc = "run"]
        ELSE IF ~F.drain
        THEN [c EXCEPT
                !.frames = Remove(c.frames, fp),
                !.ret = [state |-> F.state,
                         remainder |-> check_statefn_result(
                            SubSeq(F.codes, F.index + 1, Len(F.codes)))],
                !.rp = fp - 1,
                !.pc = "ret"]
        ELSE IF F.state = "Ok"
        THEN [c EXCEPT !.pc = "done", !.tokenizer = push_drained(c.tokenizer)]
        ELSE Panic(c, "expected final state to be State::Ok")

\* A state function returned to a feed_impl loop: the loop keeps the state
\* and moves its index back by the codes handed back.
feed_impl_result(c) ==
    LET F == c.frames[c.rp]
        eof == F.code = "None"
        index == F.index + 1 - Len(c.ret.remainder)
    IN  IF ~eof /\ index < 0
        THEN Panic(c, "attempt to subtract with overflow")
        ELSE [c EXCEPT !.frames[c.rp].state = c.ret.state,
                       !.frames[c.rp].index = IF eof THEN @ ELSE index,
                       !.pc = "feed", !.ret = NoResult]

\* The wrapped state function returned to its attempt_impl wrapper: the code
\* is captured; on State::Fn the wrapper stays, on State::Ok and State::Nok
\* `done` runs: it frees (or not) and calls feed_impl on the codes.
attempt_impl(c) ==
    LET W == c.frames[c.rp]
        code == c.frames[FeedBelow(c.frames, c.rp)].code
        captured == IF code = "None" THEN W.codes ELSE Append(W.codes, code)
        ok == c.ret.state = "Ok"
        remaining == IF ok THEN c.ret.remainder ELSE <<>>
        t == IF W.kind = "attempt"
             THEN attempt_done(c.tokenizer, W.previous, ok)
             ELSE check_done(c.tokenizer, W.previous, ok)
        fed == IF W.kind = "attempt"
               THEN attempt_codes(captured, remaining, ok)
               ELSE check_codes(captured, remaining, ok)
        rolls == t # c.tokenizer
    IN  IF Len(c.ret.remainder) > Len(captured)
        THEN Panic(c, "remainder must be less than or equal to codes")
        ELSE IF c.ret.state = "Fn"
        THEN [c EXCEPT !.frames[c.rp].codes = captured, !.rp = c.rp - 1]
        ELSE IF (W.kind = "check" \/ ~ok)
                /\ free_asserts(c.tokenizer, W.previous) # ""
        THEN Panic(c, free_asserts(c.tokenizer, W.previous))
        ELSE [c EXCEPT
                !.tokenizer = [t EXCEPT !.consumed = TRUE],
                !.frames =
                    [i \in 1..Len(c.frames) |->
                        IF i = c.rp
                        THEN FeedFrame(fed, FALSE,
                                [kind |-> W.kind, ok |-> ok, at_call |-> W.at_call,
                                 seen |-> W.seen, captured |-> captured,
                                 remainder |-> remaining, clean |-> W.clean,
                                 committed |-> W.committed,
                                 nested |-> \E j \in 1..(c.rp - 1) :
                                               IsWrap(c.frames[j]),
                                 before |-> c.tokenizer])
                        ELSE IF i = 1
                        THEN [c.frames[1] EXCEPT !.origin.unclean =
                                @ \/ ((W.kind = "check" \/ ~ok) /\ ~W.clean)]
                        ELSE IF i < c.rp /\ IsWrap(c.frames[i])
                                /\ W.kind = "attempt" /\ ok
                        THEN [c.frames[i] EXCEPT !.committed = TRUE]
                        ELSE c.frames[i]],
                !.pc = "feed", !.ret = NoResult]

\* The engine runs until a state function is called, until `done` has made
\* its call of feed_impl, or until the parse ends.
Resting(c) ==
    \/ c.pc \in {"run", "done", "panic"}
    \/ c.pc = "feed" /\ c.frames[TopFeed(c.frames)].fresh

Turn(c) ==
    IF c.pc = "feed" THEN feed_impl(c)
    ELSE IF c.frames[c.rp].kind = "feed" THEN feed_impl_result(c)
    ELSE attempt_impl(c)

RECURSIVE Run(_)
Run(c) == IF Resting(c) THEN c ELSE Run(Turn(c))

Now == [tokenizer |-> tokenizer, frames |-> frames, pc |-> pc, ret |-> ret,
        rp |-> rp, panic |-> panic]

Become(c) ==
    /\ tokenizer' = c.tokenizer
    /\ frames' = c.frames
    /\ pc' = c.pc
    /\ ret' = c.ret
    /\ rp' = c.rp
    /\ panic' = c.panic

(***************************************************************************)
(* The actions.  feed starts a feed_impl loop (the one of Tokenizer::push, *)
(* or the one `done` calls).  The others are what a state function does:   *)
(* while pc = "run" a state function is running on tokenizer.current; it   *)
(* enters and exits tokens, consumes the code, makes attempts and checks,  *)
(* and returns.  The state functions are any recogniser.                   *)
(***************************************************************************)
feed ==
    /\ pc = "feed"
    /\ Become(Run(feed_impl(Now)))
    /\ UNCHANGED <<last, doc, codes, attempts, calls>>

\* The token types are interchangeable: the first one entered is "A".
state_enter(token_type) ==
    /\ pc = "run"
    /\ calls < MaxCalls
    /\ calls = 0 => token_type = "A"
    /\ calls' = calls + 1
    /\ tokenizer' = enter(tokenizer, token_type)
    /\ UNCHANGED <<last, doc, codes, frames, pc, ret, rp, panic, attempts>>

state_exit(token_type) ==
    /\ pc = "run"
    /\ calls < MaxCalls
    /\ calls' = calls + 1
    /\ IF exit_asserts(tokenizer, token_type) # ""
       THEN Become(Panic(Now, exit_asserts(tokenizer, token_type)))
       ELSE /\ tokenizer' = exit(tokenizer, token_type)
            /\ frames' =
                 [i \in 1..Len(frames) |->
                    IF IsWrap(frames[i])
                       /\ Len(tokenizer.stack) <= frames[i].previous.stack_len
                    THEN [frames[i] EXCEPT !.clean = FALSE]
                    ELSE frames[i]]
            /\ UNCHANGED <<pc, ret, rp, panic>>
    /\ UNCHANGED <<last, doc, codes, attempts>>

\* No state function consumes the eof.
state_consume(code) ==
    /\ pc = "run"
    /\ tokenizer.current # "None"
    /\ IF consume_asserts(tokenizer, code) # ""
       THEN Become(Panic(Now, consume_asserts(tokenizer, code)))
       ELSE /\ tokenizer' = consume(tokenizer, code)
            /\ UNCHANGED <<frames, pc, ret, rp, panic>>
    /\ UNCHANGED <<last, doc, codes, attempts, calls>>

Return(state, remainder) ==
    /\ Become(Run([Now EXCEPT
           !.pc = "ret",
           !.ret = [state |-> state,
                    remainder |-> check_statefn_result(remainder)],
           !.rp = Len(frames)]))
    /\ UNCHANGED <<last, doc, codes, attempts, calls>>

\* (State::Fn(next), None)
state_fn ==
    /\ pc = "run"
    /\ Return("Fn", <<>>)

\* (State::Ok, None) after the code was consumed, (State::Ok, Some(vec![code]))
\* to hand it back.
state_ok ==
    /\ pc = "run"
    /\ Return("Ok", IF tokenizer.consumed THEN <<>> ELSE <<tokenizer.current>>)

\* (State::Nok, None)
state_nok ==
    /\ pc = "run"
    /\ Return("Nok", <<>>)

\* tokenizer.attempt(state_fn, done)(tokenizer, code), and the same with check:
\* the wrapper is made and called on the current code.
state_attempt(kind) ==
    /\ pc = "run"
    /\ ~tokenizer.consumed
    /\ attempts < MaxAttempts
    /\ attempts' = attempts + 1
    /\ frames' = Append(frames,
           WrapFrame(kind, tokenizer,
               IF tokenizer.current = "None" THEN <<>>
               ELSE <<tokenizer.current>>))
    /\ UNCHANGED <<last, doc, codes, tokenizer, pc, ret, rp, panic, calls>>

\* (State::Fn(Box::new(tokenizer.attempt(state_fn, done))), None): the wrapper
\* is made now and called on the next code.
state_attempt_next(kind) ==
    /\ pc = "run"
    /\ tokenizer.consumed
    /\ attempts < MaxAttempts
    /\ attempts' = attempts + 1
    /\ Become(Run([Now EXCEPT
           !.frames = Append(frames, WrapFrame(kind, tokenizer, <<>>)),
           !.pc = "ret",
           !.ret = NoResult,
           !.rp = Len(frames)]))
    /\ UNCHANGED <<last, doc, codes, calls>>

\* An attempt made by a state function that runs inside an attempt.
MaxNested == 2

state_attempt_inside ==
    /\ pc = "run"
    /\ ~tokenizer.consumed
    /\ attempts < MaxNested
    /\ \E i \in 1..Len(frames) : IsWrap(frames[i])
    /\ attempts' = attempts + 1
    /\ frames' = Append(frames,
           WrapFrame("attempt", tokenizer,
               IF tokenizer.current = "None" THEN <<>>
               ELSE <<tokenizer.current>>))
    /\ UNCHANGED <<last, doc, codes, tokenizer, pc, ret, rp, panic, calls>>

\* No call made on the position yet.  skipped are the lines on which a
\* line-start skip has moved the tokenizer, twice whether one was moved again.
NoCall == [op |-> "none", skipped |-> {}, twice |-> FALSE]
NoDocument == [state |-> "none"]

(***************************************************************************)
(* The engine.                                                             *)
(***************************************************************************)
Init ==
    /\ codes \in Seqs(Alphabet, MaxLen)
    /\ tokenizer = new(Point(1, 1, 0), 0)
    /\ frames = <<FeedFrame(codes, TRUE, [kind |-> "push", unclean |-> FALSE])>>
    /\ pc = "feed"
    /\ ret = NoResult
    /\ rp = 1
    /\ attempts = 0
    /\ calls = 0
    /\ panic = ""
    /\ last = NoCall
    /\ doc = NoDocument

Next ==
    \/ feed
    \/ \E token_type \in Names : state_enter(token_type)
    \/ \E token_type \in Names : state_exit(token_type)
    \/ \E code \in {tokenizer.current, "b"} : state_consume(code)
    \/ state_fn
    \/ state_ok
    \/ state_nok
    \/ \E kind \in {"attempt", "check"} : state_attempt(kind)
    \/ \E kind \in {"attempt", "check"} : state_attempt_next(kind)

Spec == Init /\ [][Next]_vars

\* The engine with state functions that make attempts inside attempts.
NextNested ==
    \/ feed
    \/ \E token_type \in Names : state_enter(token_type)
    \/ \E token_type \in Names : state_exit(token_type)
    \/ \E code \in {tokenizer.current, "b"} : state_consume(code)
    \/ state_fn
    \/ state_ok
    \/ state_nok
    \/ state_attempt("attempt")
    \/ state_attempt_inside

SpecNested == Init /\ [][NextNested]_vars

(***************************************************************************)
(* The engine with state functions that register resolvers.                *)
(***************************************************************************)
MaxRegistrations == 2

ResolverIds == {"r1", "r2"}

\* The resolver passed by the next call that registers one.
NextResolver(id) == [id |-> id, call |-> Len(tokenizer.registered) + 1]

Registered(t, id, before) ==
    [t EXCEPT !.registered = Append(@, [id |-> id, before |-> before])]

\* The ids are interchangeable: the first one registered is "r1".
state_register_resolver(id) ==
    /\ pc = "run"
    /\ Len(tokenizer.registered) < MaxRegistrations
    /\ tokenizer.registered = <<>> => id = "r1"
    /\ tokenizer' = Registered(register_resolver(tokenizer, id, NextResolver(id)),
                               id, FALSE)
    /\ UNCHANGED <<last, doc, codes, frames, pc, ret, rp, panic, attempts, calls>>

state_register_resolver_before(id) ==
    /\ pc = "run"
    /\ Len(tokenizer.registered) < MaxRegistrations
    /\ tokenizer.registered = <<>> => id = "r1"
    /\ tokenizer' = Registered(register_resolver_before(tokenizer, id, NextResolver(id)),
                               id, TRUE)
    /\ UNCHANGED <<last, doc, codes, frames, pc, ret, rp, panic, attempts, calls>>

\* The state functions enter and exit no token.
NextResolvers ==
    \/ feed
    \/ \E code \in {tokenizer.current, "b"} : state_consume(code)
    \/ state_fn
    \/ state_ok
    \/ state_nok
    \/ \E kind \in {"attempt", "check"} : state_attempt(kind)
    \/ \E kind \in {"attempt", "check"} : state_attempt_next(kind)
    \/ \E id \in ResolverIds : state_register_resolver(id)
    \/ \E id \in ResolverIds : state_register_resolver_before(id)

SpecResolvers == Init /\ [][NextResolvers]_vars

(***************************************************************************)
(* The position of a tokenizer: what expect, consume and define_skip do to *)
(* it, whoever calls them and in whatever order.                           *)
(***************************************************************************)
MaxIndex == 3
MaxLine == 2
MaxColumn == 3

PositionAlphabet == {"a", "LF", "CR", "CRLF", "VS", "None"}

define_skip(t, point) ==
    account_for_potential_skip(
        [t EXCEPT !.column_start =
            [line \in DOMAIN @ \cup {point.line} |->
                IF line = point.line THEN point.column ELSE @[line]]])

\* What a call adds to the history of line-start skips: `after` is the
\* tokenizer it leaves, width the codes it consumed itself.
Skips(after, width) ==
    LET moved == after.index - tokenizer.index > width
    IN  [skipped |-> IF moved THEN last.skipped \cup {after.point.line}
                     ELSE last.skipped,
         twice |-> last.twice \/ (moved /\ after.point.line \in last.skipped)]

position_expect(code) ==
    /\ pc = "run"
    /\ tokenizer.index < MaxIndex
    /\ last' = [op |-> "expect", code |-> code, before |-> tokenizer,
                skipped |-> last.skipped, twice |-> last.twice]
    /\ IF expect_asserts(tokenizer)
       THEN /\ tokenizer' = expect(tokenizer, code)
            /\ UNCHANGED <<pc, panic>>
       ELSE /\ pc' = "panic"
            /\ panic' = "expected previous character to be consumed"
            /\ UNCHANGED tokenizer
    /\ UNCHANGED <<codes, frames, ret, rp, attempts, calls, doc>>

position_consume(code) ==
    /\ pc = "run"
    /\ IF consume_asserts(tokenizer, code) = ""
       THEN /\ tokenizer' = consume(tokenizer, code)
            /\ UNCHANGED <<pc, panic>>
       ELSE /\ pc' = "panic"
            /\ panic' = consume_asserts(tokenizer, code)
            /\ UNCHANGED tokenizer
    /\ last' = [op |-> "consume", code |-> code, before |-> tokenizer,
                skipped |-> Skips(tokenizer', 1).skipped,
                twice |-> Skips(tokenizer', 1).twice]
    /\ UNCHANGED <<codes, frames, ret, rp, attempts, calls, doc>>

position_define_skip(point) ==
    /\ pc = "run"
    /\ tokenizer' = define_skip(tokenizer, point)
    /\ last' = [op |-> "define_skip", point |-> point, before |-> tokenizer,
                skipped |-> Skips(tokenizer', 0).skipped,
                twice |-> Skips(tokenizer', 0).twice]
    /\ UNCHANGED <<codes, frames, pc, ret, rp, attempts, calls, panic, doc>>

InitPosition ==
    /\ codes = <<>>
    /\ tokenizer = new(Point(1, 1, 0), 0)
    /\ frames = <<>>
    /\ pc = "run"
    /\ ret = NoResult
    /\ rp = 0
    /\ attempts = 0
    /\ calls = 0
    /\ panic = ""
    /\ last = NoCall
    /\ doc = NoDocument

NextPosition ==
    \/ \E code \in PositionAlphabet : position_expect(code)
    \/ \E code \in PositionAlphabet : position_consume(code)
    \/ \E line \in 1..MaxLine, column \in 1..MaxColumn :
          position_define_skip(Point(line, column, 0))

SpecPosition == InitPosition /\ [][NextPosition]_vars

(***************************************************************************)
(* The tokens of a tokenizer: any caller's enter and exit around the codes *)
(* it is given and consumes.                                               *)
(***************************************************************************)
MaxTokens == 4

token_enter(token_type) ==
    /\ pc = "run"
    /\ calls < MaxTokens
    /\ calls' = calls + 1
    /\ tokenizer' = enter(tokenizer, token_type)
    /\ last' = [op |-> "enter", token_type |-> token_type, before |-> tokenizer,
                skipped |-> last.skipped, twice |-> last.twice]
    /\ UNCHANGED <<codes, frames, pc, ret, rp, attempts, panic, doc>>

token_exit(token_type) ==
    /\ pc = "run"
    /\ calls < MaxTokens
    /\ calls' = calls + 1
    /\ last' = [op |-> "exit", token_type |-> token_type, before |-> tokenizer,
                skipped |-> last.skipped, twice |-> last.twice]
    /\ IF exit_asserts(tokenizer, token_type) = ""
       THEN /\ tokenizer' = exit(tokenizer, token_type)
            /\ UNCHANGED <<pc, panic>>
       ELSE /\ pc' = "panic"
            /\ panic' = exit_asserts(tokenizer, token_type)
            /\ UNCHANGED tokenizer
    /\ UNCHANGED <<codes, frames, ret, rp, attempts, doc>>

NextTokens ==
    \/ position_expect("a")
    \/ position_consume("a")
    \/ \E token_type \in Names : token_enter(token_type)
    \/ \E token_type \in Names : token_exit(token_type)

SpecTokens == InitPosition /\ [][NextTokens]_vars

(***************************************************************************)
(* The line-start skip between two tokenizers on one code stream.  The     *)
(* tokenizer in doc.parent walks each line: the codes of its prefix, then  *)
(* define_skip of its point on the other tokenizer, then the rest of the   *)
(* line; the other tokenizer is then given the codes from its own index up *)
(* to the index of the first.  "HT" is Code::Char('\t'), which the codes   *)
(* "VS" (Code::VirtualSpace) follow.  doc.starts[line] is the index of the *)
(* first code after the prefix of the line, doc.applied the line whose     *)
(* skip the last call applied.                                             *)
(***************************************************************************)
MaxSkipLen == 4

SkipAlphabet == {"a", "HT", "VS", "LF"}

\* Virtual spaces only follow a tab.
SkipStreams ==
    {cs \in Seqs(SkipAlphabet, MaxSkipLen) :
        \A i \in 1..Len(cs) :
            cs[i] = "VS" => i > 1 /\ cs[i - 1] \in {"HT", "VS"}}

InitSkip ==
    /\ codes \in SkipStreams
    /\ tokenizer = new(Point(1, 1, 0), 0)
    /\ frames = <<>>
    /\ pc = "run"
    /\ ret = NoResult
    /\ rp = 0
    /\ attempts = 0
    /\ calls = 0
    /\ panic = ""
    /\ last = NoCall
    /\ doc = [state |-> "skip",
              parent |-> new(Point(1, 1, 0), 0),
              phase |-> "prefix",
              starts |-> <<>>,
              applied |-> <<>>]

SkipFrame == UNCHANGED <<codes, frames, pc, ret, rp, attempts, calls, panic, last>>

\* The first tokenizer consumes a code of the prefix of the line.
skip_parent_prefix ==
    /\ doc.state = "skip" /\ doc.phase = "prefix"
    /\ doc.parent.index < Len(codes)
    /\ \E code \in {codes[doc.parent.index + 1]} :
          /\ code # "LF"
          /\ doc' = [doc EXCEPT !.parent = consume(expect(@, code), code),
                                !.applied = <<>>]
    /\ UNCHANGED tokenizer
    /\ SkipFrame

\* child.define_skip(&tokenizer.point), at the end of the prefix.
skip_define ==
    /\ doc.state = "skip" /\ doc.phase = "prefix"
    /\ tokenizer' = define_skip(tokenizer, doc.parent.point)
    /\ doc' = [doc EXCEPT
                  !.phase = "flow",
                  !.starts = [line \in DOMAIN @ \cup {doc.parent.point.line} |->
                                 IF line = doc.parent.point.line
                                 THEN doc.parent.index ELSE @[line]],
                  !.applied = IF /\ tokenizer.point.column = 1
                                 /\ tokenizer.point.line = doc.parent.point.line
                              THEN <<tokenizer.point.line>> ELSE <<>>]
    /\ SkipFrame

\* The first tokenizer consumes the rest of the line, to its end.
skip_parent_flow ==
    /\ doc.state = "skip" /\ doc.phase = "flow"
    /\ IF doc.parent.index < Len(codes)
       THEN \E code \in {codes[doc.parent.index + 1]} :
               doc' = [doc EXCEPT !.parent = consume(expect(@, code), code),
                                  !.phase = IF code = "LF" THEN "push" ELSE @,
                                  !.applied = <<>>]
       ELSE doc' = [doc EXCEPT !.phase = "push", !.applied = <<>>]
    /\ UNCHANGED tokenizer
    /\ SkipFrame

\* The other tokenizer is given its next code and consumes it.
skip_child_consume ==
    /\ doc.state = "skip" /\ doc.phase = "push"
    /\ tokenizer.index < doc.parent.index
    /\ \E code \in {codes[tokenizer.index + 1]} :
          /\ tokenizer' = consume(expect(tokenizer, code), code)
          /\ doc' = [doc EXCEPT !.applied =
                        IF /\ code = "LF"
                           /\ (tokenizer.point.line + 1) \in DOMAIN tokenizer.column_start
                        THEN <<tokenizer.point.line + 1>> ELSE <<>>]
    /\ SkipFrame

\* The next line, whether the other tokenizer was given the whole line or
\* not yet.
skip_next_line ==
    /\ doc.state = "skip" /\ doc.phase = "push"
    /\ doc.parent.index < Len(codes)
    /\ doc' = [doc EXCEPT !.phase = "prefix", !.applied = <<>>]
    /\ UNCHANGED tokenizer
    /\ SkipFrame

NextSkip ==
    \/ skip_parent_prefix
    \/ skip_define
    \/ skip_parent_flow
    \/ skip_child_consume
    \/ skip_next_line

SpecSkip == InitSkip /\ [][NextSkip]_vars

(***************************************************************************)
(* The document driver (src/src/construct/document.rs).  Its tokenizer and *)
(* its child are tokenizers as above.  What the driver calls and the       *)
(* repository keeps elsewhere is modelled from the specification: the      *)
(* container recognisers (block quote, list item), the flow content of the *)
(* child (paragraphs, blank lines and fenced code, the concrete construct) *)
(* and divide_events.  A recogniser is the list of the calls it makes on   *)
(* the tokenizer, and whether it ends in State::Ok.                        *)
(***************************************************************************)
MaxDocLen == 4

DocAlphabet == {"a", ">", "-", " ", "~", "LF"}

\* The code at `index` of the input, eof after its end.
CodeAt(cs, index) == IF index < Len(cs) THEN cs[index + 1] ELSE "None"

Enter(name) == [op |-> "enter", name |-> name]
Exit(name) == [op |-> "exit", name |-> name]
Consume == [op |-> "consume"]
Times(n, o) == [i \in 1..n |-> o]

\* One call on the tokenizer of r = [t, panic]; the code to consume is the
\* one at the tokenizer's index.
Do(cs, r, o) ==
    IF r.panic # "" THEN r
    ELSE IF o.op = "enter" THEN [r EXCEPT !.t = enter(@, o.name)]
    ELSE IF o.op = "exit"
    THEN IF exit_asserts(r.t, o.name) # ""
         THEN [r EXCEPT !.panic = exit_asserts(r.t, o.name)]
         ELSE [r EXCEPT !.t = exit(@, o.name)]
    ELSE LET t == IF r.t.consumed
                  THEN expect(r.t, CodeAt(cs, r.t.index))
                  ELSE r.t
         IN  IF consume_asserts(t, t.current) # ""
             THEN [r EXCEPT !.panic = consume_asserts(t, t.current)]
             ELSE [r EXCEPT !.t = consume(t, t.current)]

\* The calls of ops, one after the other (each result is a value before the
\* next call is made on it).
RECURSIVE Apply(_, _, _)
Apply(cs, r, ops) ==
    IF ops = <<>> THEN r
    ELSE CHOOSE result \in {Apply(cs, done, Tail(ops)) :
                                done \in {Do(cs, r, Head(ops))}} : TRUE

\* How many spaces stand at index i, counting at most max.
RECURSIVE Spaces(_, _, _)
Spaces(cs, i, max) ==
    IF max = 0 \/ CodeAt(cs, i) # " " THEN 0
    ELSE 1 + Spaces(cs, i + 1, max - 1)

space_or_tab(n) ==
    IF n = 0 THEN <<>>
    ELSE <<Enter("SpaceOrTab")>> \o Times(n, Consume) \o <<Exit("SpaceOrTab")>>

line_ending == <<Enter("LineEnding"), Consume, Exit("LineEnding")>>

\* Block quote continuation: optional indent, `>`, optional space.
block_quote_cont_start(cs, i) ==
    LET n == Spaces(cs, i, 3)
        ok == CodeAt(cs, i + n) = ">"
        space == IF CodeAt(cs, i + n + 1) = " " THEN 1 ELSE 0
    IN  [ok |-> ok,
         ops |-> space_or_tab(n) \o
                 (IF ok
                  THEN <<Enter("BlockQuotePrefix"), Enter("BlockQuoteMarker"),
                         Consume, Exit("BlockQuoteMarker")>>
                       \o space_or_tab(space)
                       \o <<Exit("BlockQuotePrefix")>>
                  ELSE <<>>)]

block_quote_start(cs, i) ==
    [ok |-> block_quote_cont_start(cs, i).ok,
     ops |-> <<Enter("BlockQuote")>> \o block_quote_cont_start(cs, i).ops]

\* List item: a marker, then a space, or then the end of the line (the item
\* starts blank), which cannot interrupt a paragraph.  size is the width of
\* the prefix.
list_item_start(cs, i, interrupt) ==
    LET marker == CodeAt(cs, i) = "-"
        after == CodeAt(cs, i + 1)
        blank == after \in {"LF", "None"}
        ok == marker /\ (after = " " \/ (blank /\ ~interrupt))
    IN  [ok |-> ok,
         container |-> [kind |-> "ListItem", blank_initial |-> blank, size |-> 2],
         ops |-> <<Enter("ListItem")>> \o
                 (IF marker
                  THEN <<Enter("ListItemPrefix"), Enter("ListItemMarker"),
                         Consume, Exit("ListItemMarker")>>
                       \o space_or_tab(IF after = " " THEN 1 ELSE 0)
                       \o (IF ok THEN <<Exit("ListItemPrefix")>> ELSE <<>>)
                  ELSE <<>>)]

\* List item continuation: indent matching the item's size, or a blank line
\* unless the item started blank.
list_item_cont_start(cs, i, container) ==
    LET blank == CodeAt(cs, i) \in {"LF", "None"}
        n == Spaces(cs, i, container.size)
    IN  [ok |-> IF blank THEN ~container.blank_initial ELSE n = container.size,
         container |-> IF blank THEN container
                       ELSE [container EXCEPT !.blank_initial = FALSE],
         ops |-> IF blank THEN <<>> ELSE space_or_tab(n)]

(***************************************************************************)
(* The flow content of the child.  f = [t, concrete, saved, state, panic]: *)
(* its tokenizer, whether it is in a concrete construct, the InternalState *)
(* captured by a check that is waiting for the next line, the state it     *)
(* stands in.  A paragraph ends with its line and says it can be           *)
(* interrupted; a line that starts with "~" opens fenced code, which stays *)
(* open over line endings until a line that starts with "~", the end, or a *)
(* lazy line: at each line ending in it the fenced code checks, with the   *)
(* line ending entered, that the next line is not lazy.                    *)
(***************************************************************************)
flow_do(cs, f, ops) ==
    LET r == Apply(cs, [t |-> f.t, panic |-> f.panic], ops)
    IN  [f EXCEPT !.t = r.t, !.panic = r.panic]

code_fenced_at_break(cs, f) ==
    [flow_do(cs, [f EXCEPT !.saved = <<capture(f.t)>>], line_ending)
        EXCEPT !.state = "CodeFencedNonLazy"]

\* The check has its answer: what it entered is rolled back.
code_fenced_checked(f) ==
    [f EXCEPT !.t = [free(f.t, f.saved[1]) EXCEPT !.consumed = TRUE],
              !.saved = <<>>]

flow_after(f) ==
    [f EXCEPT !.state = "FlowStart", !.concrete = FALSE, !.t.interrupt = FALSE]

flow_step(cs, f) ==
    LET code == CodeAt(cs, f.t.index)
        eol == code = "LF"
    IN  IF f.state = "FlowStart"
        THEN IF eol
             THEN flow_after(flow_do(cs, f,
                    <<Enter("BlankLineEnding"), Consume, Exit("BlankLineEnding")>>))
             ELSE IF code = "~"
             THEN [flow_do(cs, f,
                     <<Enter("CodeFenced"), Enter("CodeFencedFence"), Consume>>)
                   EXCEPT !.state = "CodeFencedFenceOpen", !.concrete = TRUE]
             ELSE [flow_do(cs, f, <<Enter("Paragraph"), Enter("Data"), Consume>>)
                   EXCEPT !.state = "ParagraphInside"]
        ELSE IF f.state = "ParagraphInside"
        THEN IF eol
             THEN [flow_do(cs, f,
                     <<Exit("Data"), Exit("Paragraph")>> \o line_ending)
                   EXCEPT !.state = "FlowStart", !.t.interrupt = TRUE]
             ELSE flow_do(cs, f, <<Consume>>)
        ELSE IF f.state = "CodeFencedFenceOpen"
        THEN IF eol
             THEN code_fenced_at_break(cs,
                    flow_do(cs, f, <<Exit("CodeFencedFence")>>))
             ELSE flow_do(cs, f, <<Consume>>)
        ELSE IF f.state = "CodeFencedContent"
        THEN IF eol
             THEN code_fenced_at_break(cs,
                    flow_do(cs, f, <<Exit("CodeFlowChunk")>>))
             ELSE flow_do(cs, f, <<Consume>>)
        ELSE IF f.state = "CodeFencedFenceClose"
        THEN IF eol
             THEN flow_after(flow_do(cs, f,
                    <<Exit("CodeFencedFence"), Exit("CodeFenced")>>
                        \o line_ending))
             ELSE flow_do(cs, f, <<Consume>>)
        ELSE \* "CodeFencedNonLazy"
             IF f.t.lazy
             THEN flow_after(flow_do(cs, code_fenced_checked(f),
                    <<Exit("CodeFenced")>> \o line_ending))
             ELSE LET inside == flow_do(cs, code_fenced_checked(f), line_ending)
                  IN  IF code = "~"
                      THEN [flow_do(cs, inside,
                              <<Enter("CodeFencedFence"), Consume>>)
                            EXCEPT !.state = "CodeFencedFenceClose"]
                      ELSE IF eol
                      THEN code_fenced_at_break(cs, inside)
                      ELSE [flow_do(cs, inside,
                              <<Enter("CodeFlowChunk"), Consume>>)
                            EXCEPT !.state = "CodeFencedContent"]

\* child.push: the codes from the child's index up to `limit`.
RECURSIVE flow_push(_, _, _)
flow_push(cs, f, limit) ==
    IF f.panic # "" \/ f.t.index >= limit THEN f
    ELSE CHOOSE result \in {flow_push(cs, next, limit) :
                                next \in {flow_step(cs, f)}} : TRUE

\* child.flush: the eof.
flow_flush(cs, f) ==
    IF f.state = "FlowStart" THEN f
    ELSE IF f.state = "ParagraphInside"
    THEN [flow_do(cs, f, <<Exit("Data"), Exit("Paragraph")>>)
          EXCEPT !.state = "FlowStart", !.t.interrupt = TRUE]
    ELSE IF f.state \in {"CodeFencedFenceOpen", "CodeFencedFenceClose"}
    THEN flow_after(flow_do(cs, f,
           <<Exit("CodeFencedFence"), Exit("CodeFenced")>>))
    ELSE IF f.state = "CodeFencedContent"
    THEN flow_after(flow_do(cs, f,
           <<Exit("CodeFlowChunk"), Exit("CodeFenced")>>))
    ELSE IF f.t.lazy
    THEN flow_after(flow_do(cs, code_fenced_checked(f),
           <<Exit("CodeFenced")>> \o line_ending))
    ELSE flow_after(flow_do(cs, code_fenced_checked(f),
           line_ending \o <<Exit("CodeFenced")>>))

(***************************************************************************)
(* The driver.  doc is its tokenize_state (document_continued,             *)
(* document_container_stack, ...), its child [t, concrete, saved] and the  *)
(* attempt it is making; `tokenizer` is its tokenizer and pc the name of   *)
(* the state that runs next.  The steps of a handler work on a             *)
(* configuration c = [tokenizer, doc, panic].                              *)
(***************************************************************************)
ContainerState(kind, blank_initial, size) ==
    [kind |-> kind, blank_initial |-> blank_initial, size |-> size]

Max(S) == CHOOSE x \in S : \A y \in S : y <= x

\* The flow as the child is about to run it.
TheFlow(d) ==
    [t |-> d.child[1].t, concrete |-> d.child[1].concrete,
     saved |-> d.child[1].saved,
     state |-> IF d.document_child_state = <<>> THEN "FlowStart"
               ELSE d.document_child_state[1],
     panic |-> ""]

TheChild(f) == <<[t |-> f.t, concrete |-> f.concrete, saved |-> f.saved]>>

\* skip::opt_back, with the 0-based index of the source; -1 when the index
\* would go below 0.
RECURSIVE opt_back_exit(_, _, _)
opt_back_exit(events, index, current) ==
    IF index < 0 THEN -1
    ELSE IF events[index + 1].token_type = current THEN index - 1
    ELSE opt_back_exit(events, index - 1, current)

\* A skip that skips nothing.
opt_back_stays(events, index, token_types) == index

RECURSIVE opt_back(_, _, _)
opt_back(events, index, token_types) ==
    IF index < 0 THEN -1
    ELSE IF index >= Len(events) THEN index
    ELSE IF events[index + 1].token_type \notin token_types THEN index
    ELSE opt_back(events,
             opt_back_exit(events, index - 1, events[index + 1].token_type),
             token_types)

\* A search of the stack that finds nothing.
remove_name_not_found(r, name) == [r EXCEPT !.found = FALSE]

\* A search of the stack that finds the name and leaves it there.
remove_name_keeps(r, name) ==
    LET is == {i \in 1..Len(r.stack) : r.stack[i] = name}
    IN  IF is = {} THEN [r EXCEPT !.found = FALSE] ELSE r

\* The stack without its last `name` (found says whether there was one).
remove_name(r, name) ==
    LET is == {i \in 1..Len(r.stack) : r.stack[i] = name}
    IN  IF is = {} THEN [r EXCEPT !.found = FALSE]
        ELSE [r EXCEPT !.stack = Remove(@, Max(is))]

RECURSIVE remove_names(_, _)
remove_names(r, names) ==
    IF names = <<>> THEN r
    ELSE remove_names(remove_name(r, Head(names)), Tail(names))

\* exit_containers keeping the exits in the last slot in every phase.
exit_containers_in_last_slot(cs, c, phase) ==
    LET d == c.doc
        len == Len(d.document_container_stack)
        stack_close == SubSeq(d.document_container_stack,
                              d.document_continued + 1, len)
        n == Len(stack_close)
        flushed == IF phase # "After" THEN flow_flush(cs, TheFlow(d))
                   ELSE TheFlow(d)
        index == Len(d.document_exits) - 1
        exits == [i \in 1..n |->
                    Event("Exit", stack_close[n - i + 1].kind,
                          c.tokenizer.point, c.tokenizer.index, <<>>)]
        removed == remove_names([stack |-> c.tokenizer.stack, found |-> TRUE],
                                [i \in 1..n |-> exits[i].token_type])
    IN  IF c.panic # "" THEN c
        ELSE IF flushed.panic # "" THEN [c EXCEPT !.panic = flushed.panic]
        ELSE IF n > 0 /\ index < 0
        THEN [c EXCEPT !.panic = "attempt to subtract with overflow"]
        ELSE IF ~removed.found
        THEN [c EXCEPT !.panic = "expected to find container event to exit"]
        ELSE [c EXCEPT
                !.tokenizer.stack = removed.stack,
                !.doc.document_container_stack =
                    SubSeq(@, 1, d.document_continued),
                !.doc.child =
                    TheChild([flushed EXCEPT !.t.interrupt = FALSE]),
                !.doc.document_child_state =
                    IF phase # "After" THEN <<>> ELSE @,
                !.doc.document_exits =
                    IF n = 0 THEN @
                    ELSE [@ EXCEPT ![index + 1] =
                            IF @ = <<>> THEN <<exits>> ELSE <<@[1] \o exits>>]]

\* exit_containers flushing the child in every phase.
exit_containers_flushes(cs, c, phase) ==
    LET d == c.doc
        len == Len(d.document_container_stack)
        stack_close == SubSeq(d.document_container_stack,
                              d.document_continued + 1, len)
        n == Len(stack_close)
        flushed == flow_flush(cs, TheFlow(d))
        index == Len(d.document_exits) - (IF phase = "After" THEN 2 ELSE 1)
        exits == [i \in 1..n |->
                    Event("Exit", stack_close[n - i + 1].kind,
                          c.tokenizer.point, c.tokenizer.index, <<>>)]
        removed == remove_names([stack |-> c.tokenizer.stack, found |-> TRUE],
                                [i \in 1..n |-> exits[i].token_type])
    IN  IF c.panic # "" THEN c
        ELSE IF flushed.panic # "" THEN [c EXCEPT !.panic = flushed.panic]
        ELSE IF n > 0 /\ index < 0
        THEN [c EXCEPT !.panic = "attempt to subtract with overflow"]
        ELSE IF ~removed.found
        THEN [c EXCEPT !.panic = "expected to find container event to exit"]
        ELSE [c EXCEPT
                !.tokenizer.stack = removed.stack,
                !.doc.document_container_stack =
                    SubSeq(@, 1, d.document_continued),
                !.doc.child =
                    TheChild([flushed EXCEPT !.t.interrupt = FALSE]),
                !.doc.document_child_state =
                    <<>>,
                !.doc.document_exits =
                    IF n = 0 THEN @
                    ELSE [@ EXCEPT ![index + 1] =
                            IF @ = <<>> THEN <<exits>> ELSE <<@[1] \o exits>>]]

exit_containers(cs, c, phase) ==
    LET d == c.doc
        len == Len(d.document_container_stack)
        stack_close == SubSeq(d.document_container_stack,
                              d.document_continued + 1, len)
        n == Len(stack_close)
        flushed == IF phase # "After" THEN flow_flush(cs, TheFlow(d))
                   ELSE TheFlow(d)
        index == Len(d.document_exits) - (IF phase = "After" THEN 2 ELSE 1)
        exits == [i \in 1..n |->
                    Event("Exit", stack_close[n - i + 1].kind,
                          c.tokenizer.point, c.tokenizer.index, <<>>)]
        removed == remove_names([stack |-> c.tokenizer.stack, found |-> TRUE],
                                [i \in 1..n |-> exits[i].token_type])
    IN  IF c.panic # "" THEN c
        ELSE IF flushed.panic # "" THEN [c EXCEPT !.panic = flushed.panic]
        ELSE IF n > 0 /\ index < 0
        THEN [c EXCEPT !.panic = "attempt to subtract with overflow"]
        ELSE IF ~removed.found
        THEN [c EXCEPT !.panic = "expected to find container event to exit"]
        ELSE [c EXCEPT
                !.tokenizer.stack = removed.stack,
                !.doc.document_container_stack =
                    SubSeq(@, 1, d.document_continued),
                !.doc.child =
                    TheChild([flushed EXCEPT !.t.interrupt = FALSE]),
                !.doc.document_child_state =
                    IF phase # "After" THEN <<>> ELSE @,
                !.doc.document_exits =
                    IF n = 0 THEN @
                    ELSE [@ EXCEPT ![index + 1] =
                            IF @ = <<>> THEN <<exits>> ELSE <<@[1] \o exits>>]]

\* The exits of a slot, with the point of `event`.
Stamp(exits, point, index) ==
    [i \in 1..Len(exits) |->
        [exits[i] EXCEPT !.point = point, !.index = index]]

IsLineEnding(event) ==
    /\ event.event_type = "Enter"
    /\ event.token_type \in {"LineEnding", "BlankLineEnding"}

\* inject taking the exits out of their slots without adding them.
inject_loses_exits(events, exits) ==
    LET line(k) == Cardinality({j \in 1..(k - 1) : IsLineEnding(events[j])})
        lines == line(Len(events) + 1)
    IN  [events |-> events,
         exits |-> [n \in 1..Len(exits) |-> IF n <= lines THEN <<>> ELSE exits[n]],
         line |-> lines,
         panic |-> IF lines > Len(exits) THEN "index out of bounds" ELSE ""]

\* inject leaving the exits with the point exit_containers gave them.
inject_unstamped(events, exits) ==
    LET line(k) == Cardinality({j \in 1..(k - 1) : IsLineEnding(events[j])})
        lines == line(Len(events) + 1)
        piece(k) ==
            (IF IsLineEnding(events[k]) /\ line(k) < Len(exits)
                /\ exits[line(k) + 1] # <<>>
             THEN exits[line(k) + 1][1]
             ELSE <<>>) \o <<events[k]>>
        flat[k \in 0..Len(events)] ==
            IF k = 0 THEN <<>> ELSE flat[k - 1] \o piece(k)
    IN  [events |-> flat[Len(events)],
         exits |-> [n \in 1..Len(exits) |-> IF n <= lines THEN <<>> ELSE exits[n]],
         line |-> lines,
         panic |-> IF lines > Len(exits) THEN "index out of bounds" ELSE ""]

\* The first loop of resolve: the child's events with, before the Enter of
\* its n-th line ending, the exits of slot n stamped with its point.  line is
\* the number of line endings, exits the slots less the ones taken.
inject(events, exits) ==
    LET line(k) == Cardinality({j \in 1..(k - 1) : IsLineEnding(events[j])})
        lines == line(Len(events) + 1)
        piece(k) ==
            (IF IsLineEnding(events[k]) /\ line(k) < Len(exits)
                /\ exits[line(k) + 1] # <<>>
             THEN Stamp(exits[line(k) + 1][1], events[k].point, events[k].index)
             ELSE <<>>) \o <<events[k]>>
        flat[k \in 0..Len(events)] ==
            IF k = 0 THEN <<>> ELSE flat[k - 1] \o piece(k)
    IN  [events |-> flat[Len(events)],
         exits |-> [n \in 1..Len(exits) |-> IF n <= lines THEN <<>> ELSE exits[n]],
         line |-> lines,
         panic |-> IF lines > Len(exits) THEN "index out of bounds" ELSE ""]

\* The linked Data of the parent, from the one at 0-based index i.
RECURSIVE data_chain(_, _)
data_chain(events, i) ==
    <<i>> \o (IF events[i + 1].next = <<>> THEN <<>>
              ELSE data_chain(events, events[i + 1].next[1]))

\* divide_events: each linked Data of the parent is replaced by the child's
\* events made up to the end of its span and after the end of the one before;
\* the last one takes what is left.
divide_events(events, child_events) ==
    LET datas == {i \in 1..Len(events) :
                    events[i].token_type = "Data" /\ events[i].event_type = "Enter"}
        chain == IF datas = {} THEN <<>>
                 ELSE data_chain(events, (CHOOSE i \in datas : \A j \in datas : i <= j) - 1)
        end(k) == events[chain[k] + 2].index
        span(e) == LET ks == {k \in 1..Len(chain) : e.index <= end(k)}
                   IN  IF ks = {} THEN Len(chain)
                       ELSE CHOOSE k \in ks : \A j \in ks : k <= j
        slice(k) == SelectSeq(child_events, LAMBDA e : span(e) = k)
        place(i) ==
            LET enters == {k \in 1..Len(chain) : chain[k] + 1 = i}
                exits == {k \in 1..Len(chain) : chain[k] + 2 = i}
            IN  IF enters # {} THEN slice(CHOOSE k \in enters : TRUE)
                ELSE IF exits # {} THEN <<>>
                ELSE <<events[i]>>
        flat[i \in 0..Len(events)] ==
            IF i = 0 THEN <<>> ELSE flat[i - 1] \o place(i)
    IN  flat[Len(events)]

\* Vec::append of what split_off(0) takes from the child.
append(parent, child) == parent \o child

\* resolve without the exits of the slot after the last line ending.
resolve_without_rest(c) ==
    LET d == c.doc
        child == d.child[1]
        injected == inject(child.t.events, d.document_exits)
        events == divide_events(c.tokenizer.events, injected.events)
        line == injected.line
        rest == <<>>
    IN  IF c.panic # "" THEN c
        ELSE IF injected.panic # "" THEN [c EXCEPT !.panic = injected.panic]
        ELSE [c EXCEPT
                !.tokenizer.events = events \o rest,
                !.tokenizer.resolvers = append(@, child.t.resolvers),
                !.doc.definitions = append(@, d.child_definitions),
                !.doc.child_definitions = <<>>,
                !.doc.child[1].t.resolvers = <<>>,
                !.doc.child[1].t.events = injected.events,
                !.doc.document_exits =
                    IF rest = <<>> THEN injected.exits
                    ELSE [injected.exits EXCEPT ![line + 1] = <<>>]]

resolve(c) ==
    LET d == c.doc
        child == d.child[1]
        injected == inject(child.t.events, d.document_exits)
        events == divide_events(c.tokenizer.events, injected.events)
        line == injected.line
        rest == IF line < Len(injected.exits) /\ injected.exits[line + 1] # <<>>
                THEN Stamp(injected.exits[line + 1][1],
                           c.tokenizer.point, c.tokenizer.index)
                ELSE <<>>
    IN  IF c.panic # "" THEN c
        ELSE IF injected.panic # "" THEN [c EXCEPT !.panic = injected.panic]
        ELSE [c EXCEPT
                !.tokenizer.events = events \o rest,
                !.tokenizer.resolvers = append(@, child.t.resolvers),
                !.doc.definitions = append(@, d.child_definitions),
                !.doc.child_definitions = <<>>,
                !.doc.child[1].t.resolvers = <<>>,
                !.doc.child[1].t.events = injected.events,
                !.doc.document_exits =
                    IF rest = <<>> THEN injected.exits
                    ELSE [injected.exits EXCEPT ![line + 1] = <<>>]]

(***************************************************************************)
(* The driver: one action for each state of document.rs and for each       *)
(* recogniser it attempts.  doc.line records what flow_end did on the last *)
(* line: the child after the push, the containers and exits before and     *)
(* after the containers that were not continued are closed, and at the end *)
(* of the input the tokenizer as exit_containers leaves it to resolve.     *)
(***************************************************************************)
swap(s, a, b) ==
    [i \in 1..Len(s) |->
        IF i = a + 1 THEN s[b + 1] ELSE IF i = b + 1 THEN s[a + 1] ELSE s[i]]

\* Vec::remove in the place of Vec::swap_remove: the tail moves up.
swap_remove_shifts(s, index) ==
    SubSeq(s, 1, index) \o SubSeq(s, index + 2, Len(s))

swap_remove(s, index) == Front(swap(s, index, Len(s) - 1))

Current == CodeAt(codes, tokenizer.index)

NoLine == [at |-> "none"]

\* tokenizer.attempt(ok, nok)
attempt(d, t, ok, nok) ==
    [d EXCEPT !.attempt = [ok |-> ok, nok |-> nok, previous |-> capture(t)]]

Config(t, d) == [tokenizer |-> t, doc |-> d, panic |-> ""]

\* What a handler found when it started: its name, the tokenizer, the
\* tokenize_state and the flags of the child.
Step ==
    [handler |-> pc, tokenizer |-> tokenizer,
     doc |-> [doc EXCEPT !.log = <<>>, !.line = NoLine, !.child = <<>>],
     child |-> IF doc.child = <<>> THEN <<>>
               ELSE <<[interrupt |-> doc.child[1].t.interrupt,
                       concrete |-> doc.child[1].concrete,
                       lazy |-> doc.child[1].t.lazy]>>]

\* The handler ends: State::Retry(next) or State::Next(next), or a panic.
\* doc.log is the history of the line: the flow_end of the line before (or
\* start), then the handlers that ran on this line, each as it started.
Goto(c, next) ==
    /\ tokenizer' = c.tokenizer
    /\ doc' = [c.doc EXCEPT !.log =
                  Append(IF pc = "DocumentFlowEnd" THEN <<>> ELSE doc.log, Step)]
    /\ pc' = IF c.panic # "" THEN "panic" ELSE next
    /\ panic' = c.panic
    /\ UNCHANGED <<codes, frames, ret, rp, attempts, calls, last>>

\* A recogniser runs and the attempt ends: on State::Nok the tokenizer is
\* freed.
Attempted(result, d) ==
    \E r \in {Apply(codes, [t |-> tokenizer, panic |-> ""], result.ops)} :
    \E previous \in {doc.attempt.previous} :
        IF r.panic # "" THEN Goto([Config(r.t, d) EXCEPT !.panic = r.panic], "")
        ELSE IF ~result.ok /\ free_asserts(r.t, previous) # ""
        THEN Goto([Config(r.t, d) EXCEPT !.panic = free_asserts(r.t, previous)], "")
        ELSE Goto(Config([attempt_done(r.t, previous, result.ok)
                             EXCEPT !.consumed = TRUE], d),
                  IF result.ok THEN doc.attempt.ok ELSE doc.attempt.nok)

document_start ==
    /\ pc = "DocumentStart"
    /\ Goto(Config(tokenizer,
               [doc EXCEPT !.child = <<[t |-> new(tokenizer.point, tokenizer.index),
                                        concrete |-> FALSE, saved |-> <<>>]>>]),
            "DocumentContainerExistingBefore")

container_existing_before ==
    /\ pc = "DocumentContainerExistingBefore"
    /\ IF doc.document_continued < Len(doc.document_container_stack)
       THEN Goto(Config(tokenizer,
                    attempt(doc, tokenizer, "DocumentContainerExistingAfter",
                            "DocumentContainerNewBefore")),
                 IF doc.document_container_stack[doc.document_continued + 1].kind
                        = "BlockQuote"
                 THEN "BlockQuoteContStart" ELSE "ListItemContStart")
       ELSE Goto(Config(tokenizer, doc), "DocumentContainerNewBefore")

block_quote_cont ==
    /\ pc = "BlockQuoteContStart"
    /\ \E result \in {block_quote_cont_start(codes, tokenizer.index)} :
           Attempted(result, doc)

list_item_cont ==
    /\ pc = "ListItemContStart"
    /\ \E result \in {list_item_cont_start(codes, tokenizer.index,
                        doc.document_container_stack[doc.document_continued + 1])} :
           Attempted(result,
               [doc EXCEPT !.document_container_stack[doc.document_continued + 1]
                               = result.container])

\* container_existing_after passing over a container.
container_existing_after_twice ==
    /\ pc = "DocumentContainerExistingAfter"
    /\ Goto(Config(tokenizer, [doc EXCEPT !.document_continued = @ + 2]),
            "DocumentContainerExistingBefore")

container_existing_after ==
    /\ pc = "DocumentContainerExistingAfter"
    /\ Goto(Config(tokenizer, [doc EXCEPT !.document_continued = @ + 1]),
            "DocumentContainerExistingBefore")

\* container_new_before taking the interrupt of the child on every line.
container_new_before_inherits ==
    /\ pc = "DocumentContainerNewBefore"
    /\ LET all == doc.document_continued = Len(doc.document_container_stack)
           child == doc.child[1]
           t == [tokenizer EXCEPT !.interrupt = child.t.interrupt]
           tail == Len(doc.document_container_stack)
           pushed == Append(doc.document_container_stack,
                            ContainerState("BlockQuote", FALSE, 0))
       IN  IF all /\ child.concrete
           THEN Goto(Config(t, doc), "DocumentContainersAfter")
           ELSE Goto(Config(t,
                        attempt([doc EXCEPT !.document_container_stack =
                                    swap(pushed, doc.document_continued, tail)],
                                t, "DocumentContainerNewAfter",
                                "DocumentContainerNewBeforeNotBlockQuote")),
                     "BlockQuoteStart")

\* container_new_before without the return on child.concrete.
container_new_before_pierces ==
    /\ pc = "DocumentContainerNewBefore"
    /\ LET all == doc.document_continued = Len(doc.document_container_stack)
           child == doc.child[1]
           t == IF all THEN [tokenizer EXCEPT !.interrupt = child.t.interrupt]
                ELSE tokenizer
           tail == Len(doc.document_container_stack)
           pushed == Append(doc.document_container_stack,
                            ContainerState("BlockQuote", FALSE, 0))
       IN  Goto(Config(t,
                   attempt([doc EXCEPT !.document_container_stack =
                               swap(pushed, doc.document_continued, tail)],
                           t, "DocumentContainerNewAfter",
                           "DocumentContainerNewBeforeNotBlockQuote")),
                "BlockQuoteStart")

container_new_before ==
    /\ pc = "DocumentContainerNewBefore"
    /\ LET all == doc.document_continued = Len(doc.document_container_stack)
           child == doc.child[1]
           t == IF all THEN [tokenizer EXCEPT !.interrupt = child.t.interrupt]
                ELSE tokenizer
           tail == Len(doc.document_container_stack)
           pushed == Append(doc.document_container_stack,
                            ContainerState("BlockQuote", FALSE, 0))
       IN  IF all /\ child.concrete
           THEN Goto(Config(t, doc), "DocumentContainersAfter")
           ELSE Goto(Config(t,
                        attempt([doc EXCEPT !.document_container_stack =
                                    swap(pushed, doc.document_continued, tail)],
                                t, "DocumentContainerNewAfter",
                                "DocumentContainerNewBeforeNotBlockQuote")),
                     "BlockQuoteStart")

block_quote ==
    /\ pc = "BlockQuoteStart"
    /\ \E result \in {block_quote_start(codes, tokenizer.index)} :
           Attempted(result, doc)

container_new_before_not_block_quote ==
    /\ pc = "DocumentContainerNewBeforeNotBlockQuote"
    /\ Goto(Config(tokenizer,
               attempt([doc EXCEPT
                           !.document_container_stack[doc.document_continued + 1]
                               = ContainerState("ListItem", FALSE, 0)],
                       tokenizer, "DocumentContainerNewAfter",
                       "DocumentContainerNewBeforeNotList")),
            "ListItemStart")

list_item ==
    /\ pc = "ListItemStart"
    /\ \E result \in {list_item_start(codes, tokenizer.index,
                                       tokenizer.interrupt)} :
           Attempted(result,
               IF result.ok
               THEN [doc EXCEPT
                        !.document_container_stack[doc.document_continued + 1]
                            = result.container]
               ELSE doc)

\* container_new_before_not_list leaving the tentative container on the stack.
container_new_before_not_list_keeps ==
    /\ pc = "DocumentContainerNewBeforeNotList"
    /\ Goto(Config(tokenizer, doc), "DocumentContainersAfter")

container_new_before_not_list ==
    /\ pc = "DocumentContainerNewBeforeNotList"
    /\ Goto(Config(tokenizer,
               [doc EXCEPT !.document_container_stack =
                               swap_remove(@, doc.document_continued)]),
            "DocumentContainersAfter")

\* container_new_after without the call of exit_containers.
container_new_after_keeps_tail ==
    /\ pc = "DocumentContainerNewAfter"
    /\ LET container == doc.document_container_stack[doc.document_continued + 1]
           removed == Config(tokenizer,
                         [doc EXCEPT !.document_container_stack =
                                         swap_remove(@, doc.document_continued)])
       IN  Goto([removed EXCEPT
                    !.doc.document_container_stack = Append(@, container),
                    !.doc.document_continued = @ + 1,
                    !.tokenizer.interrupt = FALSE],
                "DocumentContainerNewBefore")

container_new_after ==
    /\ pc = "DocumentContainerNewAfter"
    /\ LET container == doc.document_container_stack[doc.document_continued + 1]
           removed == Config(tokenizer,
                         [doc EXCEPT !.document_container_stack =
                                         swap_remove(@, doc.document_continued)])
       IN  \E closed \in {IF doc.document_continued
                                # Len(removed.doc.document_container_stack)
                            THEN exit_containers(codes, removed, "Prefix")
                            ELSE removed} :
           Goto([closed EXCEPT
                    !.doc.document_container_stack = Append(@, container),
                    !.doc.document_continued = @ + 1,
                    !.tokenizer.interrupt = FALSE],
                "DocumentContainerNewBefore")

\* containers_after without the link from the Data of the line before.
containers_after_unlinked ==
    /\ pc = "DocumentContainersAfter"
    /\ LET child == [doc.child[1] EXCEPT
                        !.t = define_skip(
                                 [@ EXCEPT !.lazy = doc.document_continued
                                             # Len(doc.document_container_stack)],
                                 tokenizer.point)]
           d == [doc EXCEPT !.child = <<child>>]
           current == Len(tokenizer.events)
           previous == doc.document_data_index
           entered == enter_with_content(tokenizer, "Data", <<"Flow">>)
       IN  IF Current = "None"
           THEN Goto(Config(tokenizer, d), "DocumentFlowEnd")
           ELSE Goto(Config([entered EXCEPT
                                !.events[current + 1].previous = previous],
                            [d EXCEPT !.document_data_index = <<current>>]),
                     "DocumentFlowInside")

\* containers_after entering Data at the end of the input too.
containers_after_at_eof ==
    /\ pc = "DocumentContainersAfter"
    /\ LET child == [doc.child[1] EXCEPT
                        !.t = define_skip(
                                 [@ EXCEPT !.lazy = doc.document_continued
                                             # Len(doc.document_container_stack)],
                                 tokenizer.point)]
           d == [doc EXCEPT !.child = <<child>>]
           current == Len(tokenizer.events)
           previous == doc.document_data_index
           linked == IF previous = <<>> THEN tokenizer
                     ELSE [tokenizer EXCEPT
                              !.events[previous[1] + 1].next = <<current>>]
           entered == enter_with_content(linked, "Data", <<"Flow">>)
       IN  Goto(Config([entered EXCEPT
                           !.events[current + 1].previous = previous],
                       [d EXCEPT !.document_data_index = <<current>>]),
                "DocumentFlowInside")

containers_after ==
    /\ pc = "DocumentContainersAfter"
    /\ LET child == [doc.child[1] EXCEPT
                        !.t = define_skip(
                                 [@ EXCEPT !.lazy = doc.document_continued
                                             # Len(doc.document_container_stack)],
                                 tokenizer.point)]
           d == [doc EXCEPT !.child = <<child>>]
           current == Len(tokenizer.events)
           previous == doc.document_data_index
           linked == IF previous = <<>> THEN tokenizer
                     ELSE [tokenizer EXCEPT
                              !.events[previous[1] + 1].next = <<current>>]
           entered == enter_with_content(linked, "Data", <<"Flow">>)
       IN  IF Current = "None"
           THEN Goto(Config(tokenizer, d), "DocumentFlowEnd")
           ELSE Goto(Config([entered EXCEPT
                                !.events[current + 1].previous = previous],
                            [d EXCEPT !.document_data_index = <<current>>]),
                     "DocumentFlowInside")

flow_inside ==
    /\ pc = "DocumentFlowInside"
    /\ \E r \in {Apply(codes, [t |-> tokenizer, panic |-> ""],
                         IF Current = "None" THEN <<Exit("Data")>>
                         ELSE IF Current = "LF" THEN <<Consume, Exit("Data")>>
                         ELSE <<Consume>>)} :
           Goto([Config(r.t, doc) EXCEPT !.panic = r.panic],
                IF Current \in {"None", "LF"} THEN "DocumentFlowEnd"
                ELSE "DocumentFlowInside")

\* What flow_end makes of the child after the push: whether the flow ends in
\* a paragraph, and the panic of the index when opt_back runs off the events.
flow_end_paragraph(pushed) ==
    LET events == pushed.t.events
        back == opt_back(events, Len(events) - 1, {"LineEnding"})
    IN  [paragraph |-> \/ pushed.state = "ParagraphInside"
                       \/ /\ events # <<>>
                          /\ back >= 0
                          /\ events[back + 1].token_type = "Paragraph",
         panic |-> IF pushed.panic # "" THEN pushed.panic
                   ELSE IF pushed.state # "ParagraphInside"
                           /\ events # <<>> /\ back < 0
                   THEN "attempt to subtract with overflow"
                   ELSE ""]

\* flow_end that pushes no slot for the line.
flow_end_without_slot ==
    /\ pc = "DocumentFlowEnd"
    /\ \E pushed \in {flow_push(codes, TheFlow(doc), tokenizer.index)} :
       \E is \in {flow_end_paragraph(pushed)} :
       \E fed \in {[Config(tokenizer,
                       [doc EXCEPT
                           !.child = TheChild(pushed),
                           !.document_child_state = <<pushed.state>>,
                           !.document_continued =
                               IF /\ pushed.t.lazy
                                  /\ is.paragraph
                                  /\ doc.document_paragraph_before
                               THEN Len(doc.document_container_stack)
                               ELSE @])
                    EXCEPT !.panic = is.panic]} :
       \E after \in {IF fed.doc.document_continued
                           # Len(doc.document_container_stack)
                     THEN exit_containers(codes, fed, "After")
                     ELSE fed} :
       \E line \in {[at |-> IF Current = "None" THEN "eof" ELSE "eol",
                     lazy |-> pushed.t.lazy,
                     paragraph_before |-> doc.document_paragraph_before,
                     continued |-> doc.document_continued,
                     stack |-> doc.document_container_stack,
                     exits |-> fed.doc.document_exits,
                     child_state |-> pushed.state,
                     child_events |-> pushed.t.events,
                     after_continued |-> fed.doc.document_continued,
                     after_stack |-> after.doc.document_container_stack,
                     after_exits |-> after.doc.document_exits,
                     after_child_state |-> after.doc.document_child_state,
                     after_child_events |->
                         IF after.panic # "" THEN <<>>
                         ELSE after.doc.child[1].t.events,
                     after_interrupt |->
                         after.panic = "" /\ after.doc.child[1].t.interrupt,
                     closed |-> <<>>]} :
          IF Current = "None"
          THEN \E eof \in {exit_containers(codes,
                              [after EXCEPT !.doc.document_continued = 0],
                              "Eof")} :
               \E resolved \in {resolve(eof)} :
                  Goto([resolved EXCEPT
                           !.doc.line =
                               [line EXCEPT !.closed =
                                   <<[stack |-> eof.tokenizer.stack,
                                      events |-> eof.tokenizer.events,
                                      exits |-> eof.doc.document_exits,
                                      child_events |->
                                          IF eof.panic # "" THEN <<>>
                                          ELSE eof.doc.child[1].t.events]>>]],
                       "Ok")
          ELSE Goto([after EXCEPT
                        !.doc.document_continued = 0,
                        !.doc.document_paragraph_before = is.paragraph,
                        !.doc.line = line,
                        !.tokenizer.interrupt = FALSE],
                    "DocumentContainerExistingBefore")

flow_end ==
    /\ pc = "DocumentFlowEnd"
    /\ \E pushed \in {flow_push(codes, TheFlow(doc), tokenizer.index)} :
       \E is \in {flow_end_paragraph(pushed)} :
       \E fed \in {[Config(tokenizer,
                       [doc EXCEPT
                           !.document_exits = Append(@, <<>>),
                           !.child = TheChild(pushed),
                           !.document_child_state = <<pushed.state>>,
                           !.document_continued =
                               IF /\ pushed.t.lazy
                                  /\ is.paragraph
                                  /\ doc.document_paragraph_before
                               THEN Len(doc.document_container_stack)
                               ELSE @])
                    EXCEPT !.panic = is.panic]} :
       \E after \in {IF fed.doc.document_continued
                           # Len(doc.document_container_stack)
                     THEN exit_containers(codes, fed, "After")
                     ELSE fed} :
       \E line \in {[at |-> IF Current = "None" THEN "eof" ELSE "eol",
                     lazy |-> pushed.t.lazy,
                     paragraph_before |-> doc.document_paragraph_before,
                     continued |-> doc.document_continued,
                     stack |-> doc.document_container_stack,
                     exits |-> fed.doc.document_exits,
                     child_state |-> pushed.state,
                     child_events |-> pushed.t.events,
                     after_continued |-> fed.doc.document_continued,
                     after_stack |-> after.doc.document_container_stack,
                     after_exits |-> after.doc.document_exits,
                     after_child_state |-> after.doc.document_child_state,
                     after_child_events |->
                         IF after.panic # "" THEN <<>>
                         ELSE after.doc.child[1].t.events,
                     after_interrupt |->
                         after.panic = "" /\ after.doc.child[1].t.interrupt,
                     closed |-> <<>>]} :
          IF Current = "None"
          THEN \E eof \in {exit_containers(codes,
                              [after EXCEPT !.doc.document_continued = 0],
                              "Eof")} :
               \E resolved \in {resolve(eof)} :
                  Goto([resolved EXCEPT
                           !.doc.line =
                               [line EXCEPT !.closed =
                                   <<[stack |-> eof.tokenizer.stack,
                                      events |-> eof.tokenizer.events,
                                      exits |-> eof.doc.document_exits,
                                      child_events |->
                                          IF eof.panic # "" THEN <<>>
                                          ELSE eof.doc.child[1].t.events]>>]],
                       "Ok")
          ELSE Goto([after EXCEPT
                        !.doc.document_continued = 0,
                        !.doc.document_paragraph_before = is.paragraph,
                        !.doc.line = line,
                        !.tokenizer.interrupt = FALSE],
                    "DocumentContainerExistingBefore")

(***************************************************************************)
(* The document: the driver over every input.                              *)
(***************************************************************************)
InitDriver(inputs) ==
    /\ codes \in inputs
    /\ tokenizer = new(Point(1, 1, 0), 0)
    /\ frames = <<>>
    /\ pc = "DocumentStart"
    /\ ret = NoResult
    /\ rp = 0
    /\ attempts = 0
    /\ calls = 0
    /\ panic = ""
    /\ last = NoCall
    /\ doc = [state |-> "document",
              child |-> <<>>,
              document_child_state |-> <<>>,
              document_container_stack |-> <<>>,
              document_continued |-> 0,
              document_data_index |-> <<>>,
              document_exits |-> <<>>,
              document_paragraph_before |-> FALSE,
              definitions |-> <<>>,
              child_definitions |-> <<>>,
              log |-> <<>>,
              attempt |-> [ok |-> "", nok |-> "",
                           previous |-> capture(new(Point(1, 1, 0), 0))],
              line |-> NoLine]

InitDocument == InitDriver(Seqs(DocAlphabet, MaxDocLen))

NextDocument ==
    \/ document_start
    \/ container_existing_before
    \/ block_quote_cont
    \/ list_item_cont
    \/ container_existing_after
    \/ container_new_before
    \/ block_quote
    \/ container_new_before_not_block_quote
    \/ list_item
    \/ container_new_before_not_list
    \/ container_new_after
    \/ containers_after
    \/ flow_inside
    \/ flow_end

SpecDocument == InitDocument /\ [][NextDocument]_vars

\* The driver runs to its end: feed_impl calls the state it holds.
SpecDocumentFair == SpecDocument /\ WF_vars(NextDocument)

\* The driver on longer inputs of containers and paragraphs only.
MaxNestLen == 5

NestAlphabet == {"a", ">", "-", "LF"}

InitNest == InitDriver(Seqs(NestAlphabet, MaxNestLen))

SpecNest == InitNest /\ [][NextDocument]_vars

\* The engine under any state functions, and the driver.
SpecAll == (Init \/ InitDocument) /\ [][Next \/ NextDocument]_vars

(***************************************************************************)
(* The end of resolve on its own: the resolvers and the definitions of the *)
(* child are appended to those of the document, whatever the two           *)
(* tokenizers hold.  Each list comes from registrations, which keep an id  *)
(* once.  doc.before is what the lists were.                               *)
(***************************************************************************)
MaxListLen == 2

DefinitionIds == {"d1", "d2"}

Lists(S) == {list \in Seqs(S, MaxListLen) :
                \A i, j \in 1..Len(list) : list[i] = list[j] => i = j}

resolve_append ==
    /\ pc = "Resolve"
    /\ pc' = "Ok"
    /\ tokenizer' = [tokenizer EXCEPT
                        !.resolvers = append(@, doc.child_resolvers)]
    /\ doc' = [doc EXCEPT
                  !.definitions = append(@, doc.child_definitions),
                  !.child_resolvers = <<>>,
                  !.child_definitions = <<>>]
    /\ UNCHANGED <<codes, frames, ret, rp, attempts, calls, panic, last>>

InitResolve ==
    /\ codes = <<>>
    /\ \E resolvers \in Lists(ResolverIds) :
          tokenizer = [new(Point(1, 1, 0), 0) EXCEPT !.resolvers = resolvers]
    /\ frames = <<>>
    /\ pc = "Resolve"
    /\ ret = NoResult
    /\ rp = 0
    /\ attempts = 0
    /\ calls = 0
    /\ panic = ""
    /\ last = NoCall
    /\ \E child_resolvers \in Lists(ResolverIds),
          definitions \in Lists(DefinitionIds),
          child_definitions \in Lists(DefinitionIds) :
          doc = [state |-> "resolve",
                 definitions |-> definitions,
                 child_resolvers |-> child_resolvers,
                 child_definitions |-> child_definitions,
                 before |-> [resolvers |-> tokenizer.resolvers,
                             definitions |-> definitions,
                             child_resolvers |-> child_resolvers,
                             child_definitions |-> child_definitions]]

SpecResolve == InitResolve /\ [][resolve_append]_vars

(***************************************************************************)
(* The line ending of the rendered output.  The compiler is kept elsewhere *)
(* in the repository and is modelled from the specification: the line      *)
(* ending it adds is inferred from the input, and the option               *)
(* default_line_ending, an Option, is for an input without line endings.   *)
(* default_line_ending_tests is tests/misc_default_line_ending.rs: the     *)
(* input, the option and the line ending added in the expected output.     *)
(***************************************************************************)
MaxInputLen == 3

LineEndings == {"LF", "CR", "CRLF"}

\* The first line ending of the input, None when it has none.
RECURSIVE line_ending_inferred(_)
line_ending_inferred(cs) ==
    IF cs = <<>> THEN <<>>
    ELSE IF Head(cs) \in LineEndings THEN <<Head(cs)>>
    ELSE line_ending_inferred(Tail(cs))

\* A compiler that prefers the configured line ending.
line_ending_default_configured(cs, option) ==
    IF option # <<>> THEN option[1]
    ELSE IF line_ending_inferred(cs) # <<>> THEN line_ending_inferred(cs)[1]
    ELSE "LF"

line_ending_default(cs, option) ==
    IF line_ending_inferred(cs) # <<>> THEN line_ending_inferred(cs)[1]
    ELSE IF option # <<>> THEN option[1]
    ELSE "LF"

default_line_ending_tests ==
    {[input |-> <<">", " ", "a">>, option |-> <<>>, added |-> "LF"],
     [input |-> <<">", " ", "a", "LF">>, option |-> <<>>, added |-> "LF"],
     [input |-> <<">", " ", "a", "CR">>, option |-> <<>>, added |-> "CR"],
     [input |-> <<">", " ", "a", "CRLF">>, option |-> <<>>, added |-> "CRLF"],
     [input |-> <<">", " ", "a">>, option |-> <<"CR">>, added |-> "CR"],
     [input |-> <<">", " ", "a", "LF">>, option |-> <<"CR">>, added |-> "LF"]}

compile_line_ending ==
    /\ pc = "Compile"
    /\ pc' = "Compiled"
    /\ doc' = [doc EXCEPT !.line_ending =
                  <<line_ending_default(codes, doc.default_line_ending)>>]
    /\ UNCHANGED <<codes, tokenizer, frames, ret, rp, attempts, calls, panic, last>>

InitLineEnding ==
    /\ codes \in Seqs(LineEndings \cup {"a"}, MaxInputLen)
    /\ tokenizer = new(Point(1, 1, 0), 0)
    /\ frames = <<>>
    /\ pc = "Compile"
    /\ ret = NoResult
    /\ rp = 0
    /\ attempts = 0
    /\ calls = 0
    /\ panic = ""
    /\ last = NoCall
    /\ \E option \in {<<>>} \cup {<<e>> : e \in LineEndings} :
          doc = [state |-> "compile", default_line_ending |-> option,
                 line_ending |-> <<>>]

SpecLineEnding == InitLineEnding /\ [][compile_line_ending]_vars

(***************************************************************************)
(* The skips over events: skip::opt and skip::opt_back applied to a list   *)
(* of events, from an index, with a set of token types.  The events are     *)
(* well nested; doc.result is <<>> before the call and then the index       *)
(* returned, -1 when the call panics.                                       *)
(***************************************************************************)
MaxEvents == 6

SkipNames == {"LineEnding", "Paragraph"}

SkipEvents ==
    {Event(event_type, token_type, Point(1, 1, 0), 0, <<>>) :
        event_type \in {"Enter", "Exit"}, token_type \in SkipNames}

\* Every Exit closes the token entered last, and no token is left open.
WellNested(events) ==
    LET walk[i \in 0..Len(events)] ==
            IF i = 0 THEN [ok |-> TRUE, stack |-> <<>>]
            ELSE LET w == walk[i - 1]
                     e == events[i]
                 IN  IF ~w.ok THEN w
                     ELSE IF e.event_type = "Enter"
                     THEN [w EXCEPT !.stack = Append(@, e.token_type)]
                     ELSE IF w.stack # <<>> /\ Last(w.stack) = e.token_type
                     THEN [w EXCEPT !.stack = Front(@)]
                     ELSE [w EXCEPT !.ok = FALSE]
    IN  walk[Len(events)] = [ok |-> TRUE, stack |-> <<>>]

\* The inner loop of skip_opt_with_direction going forward: the index after
\* the next event of the type `current`, -1 when events[index] is out of
\* bounds.
RECURSIVE opt_exit(_, _, _)
opt_exit(events, index, current) ==
    IF index < 0 \/ index >= Len(events) THEN -1
    ELSE IF events[index + 1].token_type = current THEN index + 1
    ELSE opt_exit(events, index + 1, current)

\* skip::opt, with the 0-based index of the source.
RECURSIVE opt(_, _, _)
opt(events, index, token_types) ==
    IF index < 0 THEN -1
    ELSE IF index >= Len(events) THEN index
    ELSE IF events[index + 1].token_type \notin token_types THEN index
    ELSE opt(events,
             opt_exit(events, index + 1, events[index + 1].token_type),
             token_types)

InitOpt ==
    /\ codes = <<>>
    /\ tokenizer = new(Point(1, 1, 0), 0)
    /\ frames = <<>>
    /\ pc = "Skip"
    /\ ret = NoResult
    /\ rp = 0
    /\ attempts = 0
    /\ calls = 0
    /\ panic = ""
    /\ last = NoCall
    /\ \E events \in {es \in Seqs(SkipEvents, MaxEvents) : WellNested(es)} :
       \E index \in 0..Len(events) :
       \E token_types \in SUBSET SkipNames :
          doc = [state |-> "opt", events |-> events, index |-> index,
                 token_types |-> token_types, forward |-> TRUE, result |-> <<>>]

\* skip::opt(&events, index, &token_types)
skip_opt ==
    /\ pc = "Skip"
    /\ pc' = "Skipped"
    /\ doc' = [doc EXCEPT
                  !.forward = TRUE,
                  !.result = <<opt(doc.events, doc.index, doc.token_types)>>]
    /\ UNCHANGED <<codes, tokenizer, frames, ret, rp, attempts, calls, panic, last>>

\* skip::opt_back(&events, index, &token_types)
skip_opt_back ==
    /\ pc = "Skip"
    /\ pc' = "Skipped"
    /\ doc' = [doc EXCEPT
                  !.forward = FALSE,
                  !.result = <<opt_back(doc.events, doc.index, doc.token_types)>>]
    /\ UNCHANGED <<codes, tokenizer, frames, ret, rp, attempts, calls, panic, last>>

NextOpt == skip_opt \/ skip_opt_back

SpecOpt == InitOpt /\ [][NextOpt]_vars

(***************************************************************************)
(* Properties of the engine.                                               *)
(***************************************************************************)
\* `done` of an attempt or check has just run: it freed (or not) and called
\* feed_impl, which has not passed a code yet.
Completed ==
    /\ pc = "feed"
    /\ Last(frames).kind = "feed"
    /\ Last(frames).fresh
    /\ Last(frames).origin.kind \in {"attempt", "check"}

Origin == Last(frames).origin

Rolled == Origin.kind = "check" \/ ~Origin.ok

Restored(t, at) ==
    /\ t.events = at.events
    /\ t.stack = at.stack
    /\ t.index = at.index
    /\ t.point = at.point
    /\ t.previous = at.previous
    /\ t.current = at.current

\* C1: when an attempt ends in Nok, and no token opened before the attempt
\* was closed in it, then as feed_impl starts the nok continuation, events,
\* stack, index, point, previous and current are what they were when attempt
\* was called, and the codes it feeds are the codes that were passed to the
\* attempt, in their order.
C1_FailedAttemptRestores ==
    (Completed /\ Origin.kind = "attempt" /\ ~Origin.ok /\ Origin.clean)
        => /\ Restored(tokenizer, Origin.at_call)
           /\ Last(frames).codes = Origin.seen

C1_Witness ==
    /\ Completed /\ Origin.kind = "attempt" /\ ~Origin.ok /\ Origin.clean
    /\ Len(Origin.seen) = 2
    /\ Origin.before.index = Origin.at_call.index + 2
    /\ Origin.before.point.line > Origin.at_call.point.line
    /\ Len(Origin.before.events) > Len(Origin.at_call.events)
    /\ Origin.at_call.stack # <<>>

\* C2 as amended: whether a check ends in Ok or in Nok, if no token opened
\* before the check was closed in it, events, stack, index, point, previous
\* and current are restored and all the codes passed to the check are fed
\* again, in their order.
C2_CheckRestores ==
    (Completed /\ Origin.kind = "check" /\ Origin.clean)
        => /\ Restored(tokenizer, Origin.at_call)
           /\ Last(frames).codes = Origin.seen

C2_Witness ==
    /\ Completed /\ Origin.kind = "check" /\ Origin.ok /\ Origin.clean
    /\ Len(Origin.seen) = 2
    /\ Origin.before.index > Origin.at_call.index
    /\ Len(Origin.before.events) > Len(Origin.at_call.events)
    /\ Origin.at_call.stack # <<>>

\* C2 as stated: a check restores events, stack, index, point, previous and
\* current, whatever the state function did.
C2_CheckAlwaysRestores ==
    (Completed /\ Origin.kind = "check")
        => /\ Restored(tokenizer, Origin.at_call)
           /\ Last(frames).codes = Origin.seen

IsSuffix(s, t) ==
    /\ Len(s) <= Len(t)
    /\ s = SubSeq(t, Len(t) - Len(s) + 1, Len(t))

\* C3: when an attempt ends in Ok nothing is rolled back, the ok continuation
\* is fed the remainder, which is the tail of the codes captured that the
\* state functions did not consume.
C3_SuccessfulAttemptCommits ==
    (Completed /\ Origin.kind = "attempt" /\ Origin.ok)
        => /\ Restored(tokenizer, Origin.before)
           /\ Last(frames).codes = Origin.remainder
           /\ Origin.captured = Origin.seen
           /\ IsSuffix(Origin.remainder, Origin.captured)
           /\ tokenizer.index - Origin.at_call.index
                = Len(Origin.captured) - Len(Origin.remainder)

C3_Witness ==
    /\ Completed /\ Origin.kind = "attempt" /\ Origin.ok
    /\ Len(Origin.captured) = 2
    /\ Len(Origin.remainder) = 1
    /\ Len(tokenizer.events) > Len(Origin.at_call.events)
    /\ Len(tokenizer.stack) > Len(Origin.at_call.stack)

\* C9 as stated: no attempt or check completes after a token opened before
\* it was closed and other tokens were entered in its place.
C9_PopBelowIsRejected ==
    ~(/\ Completed
      /\ ~Origin.clean
      /\ Len(Origin.before.stack) >= Len(Origin.at_call.stack))

\* C9 as amended: the depth is looked at by free alone, and by length: a
\* rollback completes only with a stack at least as long as the one captured,
\* and fails with "expected to restore less stack items than before" when the
\* stack is shorter.
C9_RollbackChecksLength ==
    /\ (Completed /\ Rolled)
          => Len(Origin.before.stack) >= Len(Origin.at_call.stack)
    /\ (pc = "panic"
        /\ panic = "expected to restore less stack items than before")
          => /\ IsWrap(frames[rp])
             /\ Len(tokenizer.stack) < frames[rp].previous.stack_len

C9_Witness ==
    \/ /\ Completed /\ Rolled /\ ~Origin.clean
       /\ tokenizer.stack # Origin.at_call.stack
    \/ /\ pc = "panic"
       /\ panic = "expected to restore less stack items than before"

(***************************************************************************)
(* Properties of the position.                                             *)
(***************************************************************************)
IsEol(code) == code \in {"CRLF", "LF", "CR"}

\* The codes a line-start skip jumps over when `code` is consumed at t.
SkipWidth(t, code) ==
    IF IsEol(code) /\ (t.point.line + 1) \in DOMAIN t.column_start
    THEN t.column_start[t.point.line + 1] - 1
    ELSE 0

ConsumeProtocol(advance) ==
    /\ last.op = "consume" =>
         IF last.code # last.before.current
         THEN pc = "panic" /\ panic = "expected given code to equal expected code"
         ELSE IF last.before.consumed
         THEN pc = "panic" /\ panic = "expected code to not have been consumed"
         ELSE /\ pc = "run"
              /\ tokenizer.consumed
              /\ tokenizer.previous = last.code
              /\ tokenizer.index = last.before.index + advance
    /\ last.op = "expect" =>
         IF last.before.consumed
         THEN pc = "run" /\ ~tokenizer.consumed /\ tokenizer.current = last.code
         ELSE pc = "panic" /\ panic = "expected previous character to be consumed"
    /\ last.op = "define_skip" =>
         tokenizer.consumed = last.before.consumed

\* C10 as stated: consume fails when the code is not the current one or was
\* consumed already, expect fails when the previous code was not consumed,
\* only expect makes a code consumable again, and a successful consume sets
\* consumed, sets previous to the code and advances index by exactly 1.
C10_ConsumeAdvancesByOne == ConsumeProtocol(1)

\* C10 as amended: the same, but a successful consume advances index by 1
\* plus the width of the line-start skip it applies (the column registered
\* for the line that the consumed line ending opens, minus 1).
C10_ConsumeOnce == ConsumeProtocol(1 + SkipWidth(last.before, last.code))

C10_Witness ==
    /\ last.op = "consume"
    /\ last.code = last.before.current
    /\ last.before.consumed
    /\ last.before.index > 0
    /\ pc = "panic"

C12_EofIsNotAByte ==
    (last.op = "consume" /\ pc = "run" /\ last.code = "None") =>
        /\ tokenizer.point.offset = last.before.point.offset
        /\ tokenizer.point.column = last.before.point.column

\* C18: after a line ending is consumed, column is the column registered for
\* the new line, or 1 when none is, and offset has advanced by the line
\* ending and by that column - 1; define_skip for the line the tokenizer
\* stands on, at column 1, moves it at once, and otherwise leaves the point
\* alone; no line-start skip moves the tokenizer twice on one line.
C18_LineStartSkip ==
    /\ (last.op = "consume" /\ pc = "run" /\ IsEol(last.code)) =>
          LET b == last.before
              line == b.point.line + 1
              column == IF line \in DOMAIN b.column_start
                        THEN b.column_start[line] ELSE 1
              eol == IF last.code = "CRLF" THEN 2 ELSE 1
          IN  tokenizer.point = Point(line, column, b.point.offset + eol + (column - 1))
    /\ last.op = "define_skip" =>
          LET b == last.before.point
          IN  IF b.column = 1 /\ last.point.line = b.line
              THEN tokenizer.point =
                      Point(b.line, last.point.column, b.offset + (last.point.column - 1))
              ELSE tokenizer.point = b
    /\ ~last.twice

C18_Witness ==
    /\ last.op = "define_skip"
    /\ last.before.point.column = 1
    /\ last.before.point.line = 2
    /\ last.point.line = 2
    /\ last.point.column > 1
    /\ last.skipped = {1, 2}

(***************************************************************************)
(* Properties of the document.                                             *)
(***************************************************************************)
\* A traversal of events with a stack: ok as long as each Exit matches the
\* most recent unmatched Enter, stack the names left open.
Walked(events) ==
    LET walk[i \in 0..Len(events)] ==
            IF i = 0 THEN [ok |-> TRUE, stack |-> <<>>]
            ELSE LET w == walk[i - 1]
                     e == events[i]
                 IN  IF ~w.ok THEN w
                     ELSE IF e.event_type = "Enter"
                     THEN [w EXCEPT !.stack = Append(@, e.token_type)]
                     ELSE IF w.stack # <<>> /\ Last(w.stack) = e.token_type
                     THEN [w EXCEPT !.stack = Front(@)]
                     ELSE [w EXCEPT !.ok = FALSE]
    IN  walk[Len(events)]

IsFrontier(stack, events) == Walked(events) = [ok |-> TRUE, stack |-> stack]

\* The names of the exits held in document_exits, slot after slot.
Deferred(exits) ==
    LET flat[i \in 0..Len(exits)] ==
            IF i = 0 THEN <<>>
            ELSE flat[i - 1] \o
                 (IF exits[i] = <<>> THEN <<>>
                  ELSE [k \in 1..Len(exits[i][1]) |-> exits[i][1][k].token_type])
    IN  flat[Len(exits)]

\* s is t with some of its elements left out.
RECURSIVE IsSubSeq(_, _)
IsSubSeq(s, t) ==
    IF s = <<>> THEN TRUE
    ELSE IF t = <<>> THEN FALSE
    ELSE IF Head(s) = Head(t) THEN IsSubSeq(Tail(s), Tail(t))
    ELSE IsSubSeq(s, Tail(t))

Count(s, x) == Cardinality({i \in 1..Len(s) : s[i] = x})

\* The stack is the frontier of events less the names of the exits kept.
IsFrontierLess(stack, events, exits) ==
    LET frontier == Walked(events).stack
        kept == Deferred(exits)
    IN  /\ Walked(events).ok
        /\ IsSubSeq(stack, frontier)
        /\ \A i \in 1..Len(frontier) :
              Count(frontier, frontier[i])
                 = Count(stack, frontier[i]) + Count(kept, frontier[i])
        /\ \A i \in 1..Len(kept) : Count(frontier, kept[i]) > 0

InDocument == doc # NoDocument

\* C4 as stated: whatever the tokenizer has done, its stack is the open
\* frontier of its events.
C4_StackIsFrontier == IsFrontier(tokenizer.stack, tokenizer.events)

\* C4: after enter, exit and a rollback by free of an attempt in which no token
\* opened before it was closed, the stack is the sequence of the names of the
\* Enter events that have no matching Exit yet; in the document driver, where
\* exit_containers takes the containers it closes off the stack and keeps
\* their Exit events in document_exits, the stack is that frontier less the
\* exits kept, and the stack of the child is the frontier of its events.
C4_StackIsFrontierLessDeferred ==
    /\ ~InDocument /\ ~frames[1].origin.unclean
          => IsFrontier(tokenizer.stack, tokenizer.events)
    /\ InDocument /\ pc # "Ok"
          => IsFrontierLess(tokenizer.stack, tokenizer.events, doc.document_exits)
    /\ InDocument /\ pc = "Ok"
          => IsFrontierLess(doc.line.closed[1].stack, doc.line.closed[1].events,
                            doc.line.closed[1].exits)
    /\ InDocument /\ doc.child # <<>> /\ pc # "Ok"
          => IsFrontier(doc.child[1].t.stack, doc.child[1].t.events)

\* exit_containers has closed a container of a document that goes on.
C4_Witness ==
    /\ InDocument
    /\ pc = "DocumentContainerNewBefore"
    /\ Deferred(doc.document_exits) # <<>>
    /\ tokenizer.stack # <<>>

\* C5: the final event list, when the driver returns Ok, is well-nested: the
\* traversal with a stack never fails and ends with the stack empty.
C5_FinalEventsWellNested ==
    InDocument /\ pc = "Ok" => IsFrontier(<<>>, tokenizer.events)

\* C6: the parse completes: the driver ends, in State::Ok, on every input, and
\* no assertion fails on the way.
C6_ParseCompletes == <>(pc = "Ok") /\ [](pc # "panic")

\* The driver has ended on an input of several lines.
C6_Witness ==
    /\ InDocument
    /\ pc = "Ok"
    /\ Len(doc.document_exits) > 1
    /\ Len(codes) = MaxDocLen

\* The flow ends in a paragraph: the child stands in a paragraph, or the last
\* of its events that is not of a line ending is of a paragraph.
EndsInParagraph(state, events) ==
    LET rest == SelectSeq(events, LAMBDA e : e.token_type # "LineEnding")
    IN  \/ state = "ParagraphInside"
        \/ rest # <<>> /\ Last(rest).token_type = "Paragraph"

LineIsLazyParagraph ==
    /\ EndsInParagraph(doc.line.child_state, doc.line.child_events)
    /\ doc.line.paragraph_before

LineKeepsContainers ==
    /\ doc.line.after_continued = Len(doc.line.stack)
    /\ doc.line.after_stack = doc.line.stack
    /\ doc.line.after_exits = doc.line.exits

LineExitsContainers ==
    LET closed == SubSeq(doc.line.stack, doc.line.continued + 1,
                         Len(doc.line.stack))
    IN  /\ doc.line.after_stack = SubSeq(doc.line.stack, 1, doc.line.continued)
        /\ Deferred(doc.line.after_exits) =
              Deferred(doc.line.exits) \o
              [i \in 1..Len(closed) |-> closed[Len(closed) - i + 1].kind]

\* C7: on a line that is lazy (not all the open containers were continued and
\* no new one opened) flow_end keeps all the containers, and records no exit,
\* if and only if the flow just fed ends in a paragraph and paragraph_before
\* is set; otherwise it exits the containers beyond continued.  On a line
\* that is not the last, paragraph_before becomes whether the flow ends in a
\* paragraph.
C7_LazyContinuation ==
    InDocument /\ doc.line # NoLine =>
        /\ doc.line.lazy <=> doc.line.continued < Len(doc.line.stack)
        /\ doc.line.lazy => (LineKeepsContainers <=> LineIsLazyParagraph)
        /\ doc.line.lazy /\ ~LineIsLazyParagraph => LineExitsContainers
        /\ doc.line.at = "eol" =>
              doc.document_paragraph_before
                 = EndsInParagraph(doc.line.child_state, doc.line.child_events)

\* A lazy line has continued a paragraph in a container.
C7_Witness ==
    /\ InDocument
    /\ doc.line # NoLine
    /\ doc.line.lazy
    /\ LineIsLazyParagraph
    /\ LineKeepsContainers

Monotone(events) ==
    \A i \in 1..(Len(events) - 1) :
        events[i + 1].point.offset >= events[i].point.offset

OpenEnters(events) ==
    LET walk[i \in 0..Len(events)] ==
            IF i = 0 THEN <<>>
            ELSE IF events[i].event_type = "Enter"
            THEN Append(walk[i - 1], events[i])
            ELSE IF walk[i - 1] = <<>> THEN <<>>
            ELSE Front(walk[i - 1])
    IN  walk[Len(events)]

\* The call of exit closes a token that is open, by its name.
ExitCloses ==
    /\ last.op = "exit"
    /\ last.before.stack # <<>>
    /\ Last(last.before.stack) = last.token_type
    /\ OpenEnters(last.before.events) # <<>>

\* C13: exit(name) of the open token fails with "expected non-empty token"
\* exactly when the Enter it closes was recorded at the current index; a
\* span of one code or more is not rejected, whatever it has inside.
C13_ExitRejectsExactlyEmpty ==
    ExitCloses =>
        ((pc = "panic" /\ panic = "expected non-empty token")
            <=> Last(OpenEnters(last.before.events)).index = last.before.index)

(***************************************************************************)
(* Properties of the resolvers.                                            *)
(***************************************************************************)
Ids(resolvers) == [i \in 1..Len(resolvers) |-> resolvers[i].id]

NoDuplicates(s) == \A i, j \in 1..Len(s) : s[i] = s[j] => i = j

\* The calls that registered: each is the first call made with its id.
FirstCalls(registered) ==
    {k \in 1..Len(registered) :
        \A j \in 1..(k - 1) : registered[j].id # registered[k].id}

Ascending(S) ==
    CHOOSE f \in [1..Cardinality(S) -> S] :
        \A i, j \in 1..Cardinality(S) : i < j => f[i] < f[j]

Descending(S) ==
    CHOOSE f \in [1..Cardinality(S) -> S] :
        \A i, j \in 1..Cardinality(S) : i < j => f[i] > f[j]

\* The resolvers list after the calls `registered`: the resolvers passed to
\* register_resolver_before, the last one first, then those passed to
\* register_resolver, the first one first.
ListOrder(registered) ==
    LET firsts == FirstCalls(registered)
        calls_ == Descending({k \in firsts : registered[k].before})
                  \o Ascending({k \in firsts : ~registered[k].before})
    IN  [i \in 1..Len(calls_) |-> [id |-> registered[calls_[i]].id, call |-> calls_[i]]]

\* The end of the input was passed to the state function of push.
EofFed == frames[1].code = "None"

\* C14 as stated: resolvers run only as a push drains, after the end of the
\* input was fed and with final state Ok, with no attempt or check pending,
\* each resolver registered exactly once, in the order of registration.
C14_ResolversRunInRegistrationOrder ==
    /\ pc # "done" => tokenizer.resolved = <<>>
    /\ pc = "done" =>
          /\ EofFed
          /\ \A i \in 1..Len(frames) : ~IsWrap(frames[i])
          /\ NoDuplicates(tokenizer.resolved)
          /\ Ids(tokenizer.resolved) = tokenizer.resolver_ids

\* C14 as amended: resolvers run only as a push drains, when feed_impl has
\* ended with final state Ok, with no attempt or check pending; each resolver
\* registered runs exactly once, in the order of the resolvers list: those of
\* register_resolver_before first, the last registered first, then those of
\* register_resolver in the order of registration.
C14_ResolversRunAtDrain ==
    /\ pc # "done" => tokenizer.resolved = <<>> /\ ~tokenizer.drained
    /\ pc = "done" =>
          /\ tokenizer.drained
          /\ frames[TopFeed(frames)].state = "Ok"
          /\ \A i \in 1..Len(frames) : ~IsWrap(frames[i])
          /\ tokenizer.resolvers = <<>>
          /\ tokenizer.resolved = ListOrder(tokenizer.registered)

C14_Witness ==
    /\ pc = "done"
    /\ Len(tokenizer.resolved) = 2
    /\ tokenizer.resolved[1].call = 2
    /\ attempts > 0

\* C15: after any calls of register_resolver and register_resolver_before,
\* resolver_ids holds each id once, resolvers holds one resolver for each
\* of these ids, and it is the one passed by the first call with that id.
C15_FirstRegistrationWins ==
    ~tokenizer.drained =>
        /\ NoDuplicates(tokenizer.resolver_ids)
        /\ {tokenizer.resolver_ids[i] : i \in 1..Len(tokenizer.resolver_ids)}
              = {tokenizer.registered[k].id : k \in 1..Len(tokenizer.registered)}
        /\ Len(tokenizer.resolvers) = Len(tokenizer.resolver_ids)
        /\ NoDuplicates(Ids(tokenizer.resolvers))
        /\ \A i \in 1..Len(tokenizer.resolvers) :
              /\ Contains(tokenizer.resolver_ids, tokenizer.resolvers[i].id)
              /\ tokenizer.resolvers[i].call \in FirstCalls(tokenizer.registered)
              /\ tokenizer.registered[tokenizer.resolvers[i].call].id
                    = tokenizer.resolvers[i].id

C15_Witness ==
    /\ ~tokenizer.drained
    /\ Len(tokenizer.registered) = 2
    /\ tokenizer.registered[1].id = tokenizer.registered[2].id
    /\ tokenizer.registered[2].before
    /\ ~tokenizer.registered[1].before
    /\ tokenizer.resolvers = <<[id |-> "r1", call |-> 1]>>

\* C17: the resolvers registered while an attempt or check runs are gone
\* when it is rolled back, and kept when the attempt succeeds.
C17_SideListsFollowSnapshot ==
    Completed =>
        IF Rolled
        THEN /\ tokenizer.resolvers = Origin.at_call.resolvers
             /\ tokenizer.resolver_ids = Origin.at_call.resolver_ids
        ELSE /\ tokenizer.resolvers = Origin.before.resolvers
             /\ tokenizer.resolver_ids = Origin.before.resolver_ids

\* A list without the later occurrences of what it holds already.
Deduplicated(list) ==
    LET keep[i \in 0..Len(list)] ==
            IF i = 0 THEN <<>>
            ELSE IF Contains(keep[i - 1], list[i]) THEN keep[i - 1]
            ELSE Append(keep[i - 1], list[i])
    IN  keep[Len(list)]

\* C16: after resolve the document holds its resolvers and definitions and
\* then those of the child, in their order, each id once.
C16_AppendedOnce ==
    pc = "Ok" =>
        /\ tokenizer.resolvers =
              Deduplicated(doc.before.resolvers \o doc.before.child_resolvers)
        /\ doc.definitions =
              Deduplicated(doc.before.definitions \o doc.before.child_definitions)

ContainerNames == {"BlockQuote", "ListItem"}

\* The events of `events` of the kind `event_type` that are of a container.
ContainerEvents(events, event_type) ==
    SelectSeq(events, LAMBDA e : e.event_type = event_type
                                 /\ e.token_type \in ContainerNames)

\* The exits exit_containers kept in the slots of `exits`, in order.
RECURSIVE Kept(_)
Kept(exits) ==
    IF exits = <<>> THEN <<>>
    ELSE (IF Head(exits) = <<>> THEN <<>> ELSE Head(exits)[1]) \o Kept(Tail(exits))

\* The containers open when the input ended, as flow_end found them.
OpenAtEof == doc.log[1].doc.document_container_stack

\* C21: when the driver returns Ok the container stack is empty, each
\* container that was open when the input ended has its Exit, the stack of
\* the parent names no container, and the exits of the slot after the last
\* line ending are the end of the event list, with the final point.
C21_EofTeardown ==
    InDocument /\ pc = "Ok" =>
        LET closed == doc.line.closed[1]
            line == Cardinality({j \in 1..Len(doc.child[1].t.events) :
                                    IsLineEnding(doc.child[1].t.events[j])})
            rest == IF line < Len(closed.exits) /\ closed.exits[line + 1] # <<>>
                    THEN closed.exits[line + 1][1] ELSE <<>>
            events == tokenizer.events
            tail == SubSeq(events, Len(events) - Len(rest) + 1, Len(events))
        IN  /\ doc.document_container_stack = <<>>
            /\ \A i \in 1..Len(tokenizer.stack) :
                  tokenizer.stack[i] \notin ContainerNames
            /\ \A i \in 1..Len(closed.stack) :
                  closed.stack[i] \notin ContainerNames
            /\ Len(ContainerEvents(events, "Exit"))
                  = Len(ContainerEvents(events, "Enter"))
            /\ Len(rest) <= Len(events)
            /\ tail = Stamp(rest, tokenizer.point, tokenizer.index)
            /\ \A n \in 1..Len(closed.exits) :
                  n > line + 1 => closed.exits[n] = <<>>

\* The input ended with two containers open, and their exits were added at
\* the end of the events.
C21_Witness ==
    /\ InDocument
    /\ pc = "Ok"
    /\ Len(OpenAtEof) = 2
    /\ Len(tokenizer.events) >= 2
    /\ tokenizer.events[Len(tokenizer.events)].event_type = "Exit"
    /\ tokenizer.events[Len(tokenizer.events)].token_type \in ContainerNames
    /\ tokenizer.events[Len(tokenizer.events) - 1].token_type \in ContainerNames

\* The handlers of the current line, each as it started, and the current one.
Line == Tail(doc.log \o <<Step>>)

ContHandlers == {"BlockQuoteContStart", "ListItemContStart"}

PhaseOne == {"DocumentContainerExistingBefore", "DocumentContainerExistingAfter"}
                \cup ContHandlers

\* The recogniser container_existing_before attempts for a container.
ContOf(container) ==
    IF container.kind = "BlockQuote" THEN "BlockQuoteContStart"
    ELSE "ListItemContStart"

\* C22: a line starts at container_existing_before with continued = 0 and
\* interrupt = false; the continuations are tried in stack order, the
\* outermost first; a success adds exactly one to continued; after the first
\* failure no continuation is tried on the line, and the failed one leaves
\* the events and the position as they were.
C22_PhaseOneOrdering ==
    InDocument =>
        /\ Line # <<>> /\ Line[1].handler # "Ok" =>
              /\ Line[1].handler = "DocumentContainerExistingBefore"
              /\ Line[1].doc.document_continued = 0
              /\ ~Line[1].tokenizer.interrupt
        /\ \A k \in 1..Len(Line) :
              LET d == Line[k].doc
                  stack == d.document_container_stack
              IN  /\ Line[k].handler = "DocumentContainerExistingBefore" =>
                        /\ d.document_continued
                              = Cardinality({j \in 1..(k - 1) : Line[j].handler
                                    = "DocumentContainerExistingBefore"})
                        /\ k < Len(Line) =>
                              Line[k + 1].handler =
                                  IF d.document_continued < Len(stack)
                                  THEN ContOf(stack[d.document_continued + 1])
                                  ELSE "DocumentContainerNewBefore"
                  /\ Line[k].handler \in ContHandlers /\ k < Len(Line) =>
                        /\ Line[k + 1].handler \in {"DocumentContainerExistingAfter",
                                                    "DocumentContainerNewBefore"}
                        /\ Line[k + 1].doc.document_continued = d.document_continued
                        /\ Line[k + 1].handler = "DocumentContainerNewBefore" =>
                              /\ Line[k + 1].tokenizer.events = Line[k].tokenizer.events
                              /\ Line[k + 1].tokenizer.point = Line[k].tokenizer.point
                              /\ Line[k + 1].tokenizer.index = Line[k].tokenizer.index
                  /\ Line[k].handler = "DocumentContainerExistingAfter"
                     /\ k < Len(Line) =>
                        /\ Line[k + 1].handler = "DocumentContainerExistingBefore"
                        /\ Line[k + 1].doc.document_continued
                              = d.document_continued + 1
                  /\ Line[k].handler \notin PhaseOne =>
                        \A j \in k..Len(Line) : Line[j].handler \notin PhaseOne

\* On a line with two containers open the first continued and the second did
\* not: its recogniser failed, and the new containers are tried next.
C22_Witness ==
    /\ InDocument
    /\ pc = "DocumentContainerNewBefore"
    /\ Len(doc.document_container_stack) = 2
    /\ doc.document_continued = 1
    /\ Len(Line) = 6
    /\ Line[5].handler \in ContHandlers

NewHandlers == {"BlockQuoteStart", "ListItemStart"}

\* C23: when container_new_before finds every container continued and the
\* child in a concrete construct, no recogniser of a new container is
\* attempted on the line and the flow is fed with the container stack as it
\* was; when a container was not continued the recognisers are attempted,
\* whether the child is concrete or not.
C23_ConcreteNotPierced ==
    InDocument =>
        \A k \in 1..Len(Line) :
            Line[k].handler = "DocumentContainerNewBefore" =>
                LET d == Line[k].doc
                    stack == d.document_container_stack
                    all == d.document_continued = Len(stack)
                    concrete == Line[k].child[1].concrete
                IN  /\ all /\ concrete =>
                          /\ \A j \in 1..Len(Line) :
                                Line[j].handler \notin NewHandlers
                          /\ k < Len(Line) =>
                                Line[k + 1].handler = "DocumentContainersAfter"
                          /\ \A j \in k..Len(Line) :
                                Line[j].handler \in {"DocumentContainersAfter",
                                                     "DocumentFlowInside",
                                                     "DocumentFlowEnd"}
                                    => Line[j].doc.document_container_stack = stack
                    /\ ~all /\ k < Len(Line) =>
                          Line[k + 1].handler = "BlockQuoteStart"

\* In a concrete construct of a container that continued, the driver is at
\* the flow without a recogniser of a new container having been tried.
C23_Witness ==
    /\ InDocument
    /\ pc = "DocumentContainersAfter"
    /\ doc.child[1].concrete
    /\ doc.document_container_stack # <<>>
    /\ doc.document_continued = Len(doc.document_container_stack)
    /\ \A j \in 1..Len(Line) : Line[j].handler \notin NewHandlers
    /\ \E k \in 1..Len(Line) : Line[k].handler = "DocumentContainerNewBefore"

\* In a concrete construct of a container that did not continue, the
\* recognisers of new containers are tried.
C23_WitnessPierced ==
    /\ InDocument
    /\ pc = "BlockQuoteStart"
    /\ doc.child[1].concrete
    /\ doc.document_continued < Len(doc.document_container_stack) - 1

\* The place in Line of the first recogniser of a new container, 0 if none.
FirstNew ==
    LET at == {k \in 1..Len(Line) : Line[k].handler \in NewHandlers}
    IN  IF at = {} THEN 0 ELSE CHOOSE k \in at : \A j \in at : k <= j

\* Whether the handler at place k of Line found every container continued.
AllContinued(k) ==
    Line[k].doc.document_continued = Len(Line[k].doc.document_container_stack)

\* C24: when the first recogniser of a new container of a line starts, the
\* interrupt of the parent is the interrupt of the child if every container
\* continued, and false, as flow_end left it, if one did not.
C24_InterruptInheritedWhenAllContinued ==
    InDocument /\ FirstNew # 0 =>
        /\ FirstNew > 1
        /\ Line[FirstNew - 1].handler = "DocumentContainerNewBefore"
        /\ Line[FirstNew].tokenizer.interrupt =
              IF AllContinued(FirstNew - 1)
              THEN Line[FirstNew].child[1].interrupt
              ELSE FALSE

\* The first recogniser of a new container starts after a paragraph, no
\* container open: the parent has the interrupt of the child.
C24_Witness ==
    /\ InDocument
    /\ pc = "BlockQuoteStart"
    /\ FirstNew = Len(Line)
    /\ AllContinued(FirstNew - 1)
    /\ doc.child[1].t.interrupt
    /\ tokenizer.interrupt

\* C24 as stated: the parent has the interrupt of the child also when a
\* container did not continue.
C24_InterruptInherited ==
    InDocument /\ FirstNew # 0 =>
        Line[FirstNew].tokenizer.interrupt = Line[FirstNew].child[1].interrupt

\* The place in Line of the last container_new_before before place j.
NewBeforeOf(j) ==
    CHOOSE i \in 1..(j - 1) :
        /\ Line[i].handler = "DocumentContainerNewBefore"
        /\ \A n \in (i + 1)..(j - 1) :
              Line[n].handler # "DocumentContainerNewBefore"

\* The Exit events of the containers of `stack` after the first k, the
\* innermost first, by name.
ExitsOf(stack, k) ==
    [i \in 1..(Len(stack) - k) |-> stack[Len(stack) - i + 1].kind]

\* container_new_after has just run, without a panic.
AfterNewAfter ==
    /\ InDocument
    /\ pc = "DocumentContainerNewBefore"
    /\ Len(Line) >= 2
    /\ Line[Len(Line) - 1].handler = "DocumentContainerNewAfter"

\* C25: when a recogniser of a new container succeeds with k containers
\* continued, the container stack becomes the first k containers of before,
\* in order, and the new one; each container after the first k has its Exit
\* kept in document_exits and its name taken off the stack, the child being
\* flushed when there is one; continued = container_stack.len() = k + 1.
C25_NewContainerReplacesTail ==
    AfterNewAfter =>
        LET j == Len(Line) - 1
            before == Line[NewBeforeOf(j)]
            old == before.doc.document_container_stack
            k == before.doc.document_continued
            container == Line[j].doc.document_container_stack[k + 1]
            exits == Kept(doc.document_exits)
            kept == Kept(Line[j].doc.document_exits)
            added == SubSeq(exits, Len(kept) + 1, Len(exits))
        IN  /\ Line[j].doc.document_continued = k
            /\ doc.document_container_stack = Append(SubSeq(old, 1, k), container)
            /\ doc.document_continued = k + 1
            /\ Len(doc.document_container_stack) = k + 1
            /\ Len(exits) = Len(kept) + Len(old) - k
            /\ SubSeq(exits, 1, Len(kept)) = kept
            /\ [i \in 1..Len(added) |-> added[i].token_type] = ExitsOf(old, k)
            /\ \A i \in 1..Len(added) :
                  /\ added[i].event_type = "Exit"
                  /\ added[i].point = tokenizer.point
            /\ Len(old) > k =>
                  /\ doc.document_child_state = <<>>
                  /\ doc.child[1].t.stack = <<>>
                  /\ ~doc.child[1].t.interrupt
                  /\ Len(tokenizer.stack)
                        = Len(Line[j].tokenizer.stack) - (Len(old) - k)

\* A new container has opened on a line on which two containers were open
\* and only the first continued.
C25_Witness ==
    /\ AfterNewAfter
    /\ Len(Line[NewBeforeOf(Len(Line) - 1)].doc.document_container_stack) = 2
    /\ Line[NewBeforeOf(Len(Line) - 1)].doc.document_continued = 1
    /\ doc.document_continued = 2
    /\ Len(Kept(doc.document_exits)) = 1

\* C26: when neither recogniser of a new container succeeds, the container
\* stack container_new_before_not_list leaves is, element for element, the
\* one container_new_before found, whatever continued is; while a recogniser
\* runs the tentative container is at position continued and the stack is
\* one longer.
C26_SlotSwapLeavesNoTrace ==
    InDocument =>
        \A j \in 2..Len(Line) :
            LET before == Line[NewBeforeOf(j)]
                old == before.doc.document_container_stack
                k == before.doc.document_continued
                stack == Line[j].doc.document_container_stack
            IN  /\ Line[j].handler \in NewHandlers =>
                      /\ Line[j].doc.document_continued = k
                      /\ Len(stack) = Len(old) + 1
                      /\ stack[k + 1] =
                            ContainerState(IF Line[j].handler = "BlockQuoteStart"
                                           THEN "BlockQuote" ELSE "ListItem",
                                           FALSE, 0)
                      /\ \A i \in 1..k : stack[i] = old[i]
                      /\ \A i \in 1..Len(old) :
                            \E n \in 1..Len(stack) : n # k + 1 /\ stack[n] = old[i]
                /\ Line[j - 1].handler = "DocumentContainerNewBeforeNotList" =>
                      /\ Line[j].handler = "DocumentContainersAfter"
                      /\ stack = old
                      /\ Line[j].doc.document_continued = k

\* Two containers are open, none continued and no new container was found:
\* the tentative container stood before both, and both are back in order.
C26_Witness ==
    /\ InDocument
    /\ pc = "DocumentContainersAfter"
    /\ Line[Len(Line) - 1].handler = "DocumentContainerNewBeforeNotList"
    /\ doc.document_continued = 0
    /\ Len(doc.document_container_stack) = 2
    /\ doc.document_container_stack[1] # doc.document_container_stack[2]

\* C27: once a new container has opened on a line, each later recogniser of
\* a new container on the line starts with interrupt false, whatever the
\* interrupt of the child.
C27_InterruptFalseAfterNewContainer ==
    InDocument =>
        \A j \in 1..Len(Line) :
            /\ Line[j].handler \in NewHandlers
            /\ \E i \in 1..(j - 1) : Line[i].handler = "DocumentContainerNewAfter"
            => ~Line[j].tokenizer.interrupt

\* The 0-based indices of the Enter events of Data in `events`, in order.
DataEnters(events) ==
    LET at == {i \in 1..Len(events) : /\ events[i].token_type = "Data"
                                      /\ events[i].event_type = "Enter"}
        nth[n \in 0..Cardinality(at)] ==
            IF n = 0 THEN <<>>
            ELSE Append(nth[n - 1],
                    CHOOSE i \in at :
                        Cardinality({j \in at : j < i}) = n - 1)
    IN  [n \in 1..Cardinality(at) |-> nth[Cardinality(at)][n] - 1]

\* C28: the flow of a line is fed with child.lazy = (continued <
\* container_stack.len()); each Enter of Data of the driver has the content
\* Flow, its previous is the Enter of Data of the line before it (none for
\* the first) and its next the one of the line after it (none for the last),
\* so that the chain from the first visits each once, in increasing order.
C28_DataChain ==
    InDocument =>
        /\ \A j \in 1..Len(Line) :
              Line[j].handler \in {"DocumentFlowInside", "DocumentFlowEnd"} =>
                  Line[j].child[1].lazy =
                      (Line[j].doc.document_continued
                          < Len(Line[j].doc.document_container_stack))
        /\ pc # "Ok" =>
              LET events == tokenizer.events
                  datas == DataEnters(events)
              IN  /\ \A n \in 1..Len(datas) :
                        LET e == events[datas[n] + 1]
                        IN  /\ e.content_type = <<"Flow">>
                            /\ e.previous = IF n = 1 THEN <<>> ELSE <<datas[n - 1]>>
                            /\ e.next = IF n = Len(datas) THEN <<>>
                                        ELSE <<datas[n + 1]>>
                  /\ \A n \in 1..(Len(datas) - 1) : datas[n] < datas[n + 1]
                  /\ datas # <<>> => /\ data_chain(events, datas[1]) = datas
                                     /\ doc.document_data_index = <<Last(datas)>>
                  /\ datas = <<>> => doc.document_data_index = <<>>

\* The second line of a document has its Data, linked to the first, and its
\* flow is fed as a lazy line.
C28_Witness ==
    /\ InDocument
    /\ pc = "DocumentFlowEnd"
    /\ Len(DataEnters(tokenizer.events)) = 2
    /\ doc.child[1].t.lazy
    /\ doc.document_continued < Len(doc.document_container_stack)

\* flow_end has closed, after the flow of the line, the containers that were
\* not continued (exit_containers in Phase::After).
ClosedAfterLine ==
    /\ InDocument
    /\ doc.line # NoLine
    /\ doc.line.after_continued < Len(doc.line.stack)

\* The names of the exits that slot n of `after` has and slot n of `before`
\* has not.
AddedTo(before, after, n) ==
    LET had == IF before[n] = <<>> THEN <<>> ELSE before[n][1]
        has == IF after[n] = <<>> THEN <<>> ELSE after[n][1]
    IN  [i \in 1..(Len(has) - Len(had)) |-> has[Len(had) + i].token_type]

\* C29: when a line ends with containers that are not continued, and is not
\* a lazy line of a paragraph, their Exit events are added to the slot of
\* the line before, the one before the slot that this flow_end has pushed,
\* which stays empty; no other slot changes.
C29_ExitsInSlotOfLineBefore ==
    ClosedAfterLine =>
        LET line == doc.line
            n == Len(line.exits)
        IN  /\ n >= 2
            /\ Len(line.after_exits) = n
            /\ line.exits[n] = <<>>
            /\ line.after_exits[n] = <<>>
            /\ AddedTo(line.exits, line.after_exits, n - 1)
                  = ExitsOf(line.stack, line.after_continued)
            /\ \A i \in 1..(n - 2) : line.after_exits[i] = line.exits[i]
            /\ line.after_stack = SubSeq(line.stack, 1, line.after_continued)

\* A line has ended with a container that was not continued, and its Exit
\* is in the slot of the line before.
C29_Witness ==
    /\ ClosedAfterLine
    /\ pc = "DocumentContainerExistingBefore"
    /\ doc.line.at = "eol"
    /\ Len(doc.line.exits) = 2
    /\ doc.line.after_exits[1] # <<>>
    /\ doc.line.exits[1] = <<>>

\* C29 as stated: the Exit events are in the slot that this flow_end has
\* pushed, and not in the slot of a line before.
C29_ExitsInSlotOfLine ==
    ClosedAfterLine =>
        LET line == doc.line
            n == Len(line.exits)
        IN  /\ AddedTo(line.exits, line.after_exits, n)
                  = ExitsOf(line.stack, line.after_continued)
            /\ \A i \in 1..(n - 1) : line.after_exits[i] = line.exits[i]

\* C30: when flow_end closes the containers that were not continued, before
\* it looks at the end of the input, the Exit events are kept without a
\* flush of the child: the events of the child are those the push of the
\* line left, the state it stands in is kept for the next line, and its
\* interrupt is false.
C30_AfterPhaseKeepsChild ==
    ClosedAfterLine =>
        /\ doc.line.after_child_state = <<doc.line.child_state>>
        /\ doc.line.after_child_events = doc.line.child_events
        /\ ~doc.line.after_interrupt
        /\ doc.line.after_exits # doc.line.exits
        /\ doc.line.at = "eol" =>
              /\ doc.document_child_state = <<doc.line.child_state>>
              /\ doc.child[1].t.events = doc.line.child_events

\* A line that opens fenced code has ended, a container was not continued
\* on it, and the fenced code was still open in the child when flow_end
\* looked at the end of the input.
C30_Witness ==
    /\ ClosedAfterLine
    /\ doc.line.child_state = "CodeFencedNonLazy"
    /\ doc.line.after_child_state = <<"CodeFencedNonLazy">>
    /\ ~IsFrontier(<<>>, doc.line.after_child_events)

\* C30 as stated: the child is flushed and its suspended state cleared when
\* flow_end closes the containers that were not continued.
C30_AfterPhaseFlushesChild ==
    ClosedAfterLine =>
        /\ doc.line.after_child_state = <<>>
        /\ IsFrontier(<<>>, doc.line.after_child_events)

(***************************************************************************)
(* Properties of resolve and of the exits it places.                       *)
(***************************************************************************)
IsContainerExit(event) ==
    /\ event.event_type = "Exit"
    /\ event.token_type \in ContainerNames

\* The places in `events` of the Enters of line endings, in order.
LineEndingsOf(events) ==
    LET at == {i \in 1..Len(events) : IsLineEnding(events[i])}
        nth[n \in 0..Cardinality(at)] ==
            IF n = 0 THEN <<>>
            ELSE Append(nth[n - 1],
                    CHOOSE i \in at : Cardinality({j \in at : j < i}) = n - 1)
    IN  nth[Cardinality(at)]

\* The exits of containers that stand immediately before place q of `events`.
RECURSIVE RunBefore(_, _)
RunBefore(events, q) ==
    IF q > 1 /\ IsContainerExit(events[q - 1])
    THEN Append(RunBefore(events, q - 1), events[q - 1])
    ELSE <<>>

\* The exits of slot i (0-based), none for an empty slot or no slot.
SlotOf(exits, i) ==
    IF i < Len(exits) /\ exits[i + 1] # <<>> THEN exits[i + 1][1] ELSE <<>>

\* C31: in the events of the child after resolve, the exits of slot i stand
\* immediately before the Enter of the i-th line ending (0-based), in the
\* order exit_containers recorded them, each with the point of that line
\* ending; the other events of the child are as before, in order, and no
\* exit of a container stands anywhere else.
C31_ExitsBeforeLineEndings ==
    InDocument /\ pc = "Ok" =>
        LET closed == doc.line.closed[1]
            post == doc.child[1].t.events
            ends == LineEndingsOf(post)
        IN  /\ SelectSeq(post, LAMBDA e : ~IsContainerExit(e)) = closed.child_events
            /\ \A i \in 1..Len(ends) :
                  RunBefore(post, ends[i]) =
                      Stamp(SlotOf(closed.exits, i - 1),
                            post[ends[i]].point, post[ends[i]].index)
            /\ \A p \in 1..Len(post) :
                  IsContainerExit(post[p]) =>
                      \E i \in 1..Len(ends) :
                          /\ p < ends[i]
                          /\ \A n \in p..(ends[i] - 1) : IsContainerExit(post[n])

\* Two exits recorded at a later point stand before the first line ending of
\* the child, with its point.
C31_Witness ==
    /\ InDocument
    /\ pc = "Ok"
    /\ Len(SlotOf(doc.line.closed[1].exits, 0)) = 2
    /\ SlotOf(doc.line.closed[1].exits, 0)[1].token_type
          # SlotOf(doc.line.closed[1].exits, 0)[2].token_type
    /\ LineEndingsOf(doc.child[1].t.events) # <<>>
    /\ SlotOf(doc.line.closed[1].exits, 0)[1].point
          # doc.child[1].t.events[LineEndingsOf(doc.child[1].t.events)[1]].point

(***************************************************************************)
(* Properties of the index under line-start skips.                         *)
(***************************************************************************)
\* The codes of the prefix of `line`, from the start of the line to the
\* index define_skip was called at.
PrefixOf(line) ==
    LET start == doc.starts[line]
        from == IF \E i \in 1..start : codes[i] = "LF"
                THEN CHOOSE i \in 1..start :
                        /\ codes[i] = "LF"
                        /\ \A j \in (i + 1)..start : codes[j] # "LF"
                ELSE 0
    IN  SubSeq(codes, from + 1, start)

\* C32: right after a line-start skip is applied, index is the index of the
\* first code after the prefix of the line, whatever the prefix is made of.
C32_IndexAfterSkip ==
    doc.state = "skip" /\ doc.applied # <<>> =>
        tokenizer.index = doc.starts[doc.applied[1]]

\* The same for a prefix without virtual spaces.
C32_IndexAfterSkipOfCharacters ==
    /\ doc.state = "skip"
    /\ doc.applied # <<>>
    /\ \A i \in 1..Len(PrefixOf(doc.applied[1])) :
          PrefixOf(doc.applied[1])[i] # "VS"
    => tokenizer.index = doc.starts[doc.applied[1]]

\* A skip over a prefix of two characters has been applied on line 2.
C32_SkipApplied ==
    /\ doc.state = "skip"
    /\ doc.applied = <<2>>
    /\ Len(PrefixOf(2)) = 2
    /\ tokenizer.index = doc.starts[2]

(***************************************************************************)
(* Properties of attempts made inside attempts.                            *)
(***************************************************************************)

\* An attempt has just ended in Nok and was rolled back.
Failed == Completed /\ Origin.kind = "attempt" /\ ~Origin.ok

\* C33 as amended: when an attempt ends in Nok after an attempt made inside
\* it had ended in Ok, and no token opened before the outer attempt was closed
\* meanwhile, the events, the stack and the position are those captured by the
\* outer attempt, so nothing the inner attempt committed is left; and when an
\* attempt made inside another ends in Nok, having closed no token opened
\* before it, the events, the stack and the position are those the outer
\* attempt had reached when it made the inner one.
C33_NestedAttemptsCompose ==
    /\ (Failed /\ Origin.committed /\ Origin.clean)
          => Restored(tokenizer, Origin.at_call)
    /\ (Failed /\ Origin.nested /\ Origin.clean)
          => Restored(tokenizer, Origin.at_call)

\* An outer attempt is rolled back after the inner one committed an event and
\* a stack entry.
C33_Witness ==
    /\ Failed /\ Origin.committed /\ Origin.clean /\ ~Origin.nested
    /\ Len(Origin.before.events) > Len(Origin.at_call.events)
    /\ Len(Origin.before.stack) > Len(Origin.at_call.stack)
    /\ Origin.before.index > Origin.at_call.index

\* An inner attempt is rolled back after the outer one had produced an event.
C33_WitnessInner ==
    /\ Failed /\ Origin.nested /\ Origin.clean
    /\ \E i \in 1..Len(frames) :
          /\ IsWrap(frames[i])
          /\ Len(frames[i].at_call.events) < Len(Origin.at_call.events)
    /\ Len(Origin.before.events) > Len(Origin.at_call.events)

\* C33 as stated: the same, whatever tokens the attempts closed.
C33_NestedAttemptsAlwaysCompose ==
    /\ (Failed /\ Origin.committed) => Restored(tokenizer, Origin.at_call)
    /\ (Failed /\ Origin.nested) => Restored(tokenizer, Origin.at_call)

(***************************************************************************)
(* Properties of the indices of the slots.                                 *)
(***************************************************************************)

\* container_new_after is about to call exit_containers(Prefix): with the
\* tentative container taken out, continued is not the length of the stack.
PrefixCloses ==
    /\ pc = "DocumentContainerNewAfter"
    /\ doc.document_continued # Len(doc.document_container_stack) - 1

\* flow_end has called exit_containers(After).
AfterCloses ==
    /\ doc.line # NoLine
    /\ doc.line.after_continued # Len(doc.line.stack)

\* C34: exit_containers is reached in phase Prefix with at least one slot
\* in document_exits, in phase After with at least two and in phase Eof with
\* at least one, so that no container is closed before or after the flow of
\* the first line and the index of the slot is never below 0; and resolve
\* never indexes document_exits beyond its last slot at a line ending.
C34_ExitSlotsInBounds ==
    /\ PrefixCloses => Len(doc.document_exits) >= 1
    /\ AfterCloses => Len(doc.line.exits) >= 2
    /\ (doc.line # NoLine /\ doc.line.at = "eof") =>
          Len(doc.line.after_exits) >= 1
    /\ panic # "index out of bounds"
    /\ (pc = "Ok") =>
          Cardinality({k \in 1..Len(doc.line.closed[1].child_events) :
                          IsLineEnding(doc.line.closed[1].child_events[k])})
              <= Len(doc.line.closed[1].exits)

\* exit_containers(Prefix) has closed a container with one slot in
\* document_exits, the slot of the first line.
C34_Witness ==
    /\ pc = "DocumentContainerNewBefore"
    /\ Len(doc.document_exits) = 1
    /\ doc.document_exits[1] # <<>>
    /\ \E i \in 1..Len(doc.log) :
          /\ doc.log[i].handler = "DocumentContainerNewAfter"
          /\ doc.log[i].doc.document_continued
                # Len(doc.log[i].doc.document_container_stack) - 1
          /\ Len(doc.log[i].doc.document_exits) = 1
          /\ doc.log[i].doc.document_exits[1] = <<>>

\* The document has been resolved with two line endings and three slots, the
\* second one with exits.
C34_WitnessResolve ==
    /\ pc = "Ok"
    /\ Len(doc.line.closed[1].exits) = 3
    /\ doc.line.closed[1].exits[2] # <<>>
    /\ Cardinality({k \in 1..Len(doc.line.closed[1].child_events) :
                       IsLineEnding(doc.line.closed[1].child_events[k])}) = 2

\* exit_containers(After) has closed a container with two slots.
C34_WitnessAfter ==
    /\ AfterCloses
    /\ Len(doc.line.exits) = 2
    /\ doc.line.after_exits[1] # <<>>

(***************************************************************************)
(* Properties of continued.                                                *)
(***************************************************************************)

\* The handlers that run while a tentative container is on the stack.
TentativeHandlers ==
    NewHandlers \cup {"DocumentContainerNewBeforeNotBlockQuote",
                      "DocumentContainerNewBeforeNotList",
                      "DocumentContainerNewAfter"}

\* The containers the line started with.
Existing == Line[1].doc.document_container_stack

\* How many of them were continued so far.
ExistingContinued ==
    Cardinality({i \in 1..(Len(Line) - 1) :
                    Line[i].handler = "DocumentContainerExistingAfter"})

\* container_new_after has called exit_containers(Prefix) on this line.
PrefixClosed ==
    \E i \in 1..(Len(Line) - 1) :
        /\ Line[i].handler = "DocumentContainerNewAfter"
        /\ Line[i].doc.document_continued
              # Len(Line[i].doc.document_container_stack) - 1

\* The kinds of the existing containers that were not continued and are
\* still open.
Uncontinued ==
    IF PrefixClosed THEN <<>>
    ELSE [i \in 1..(Len(Existing) - ExistingContinued) |->
             Existing[ExistingContinued + i].kind]

\* C35: between the handlers of the driver, continued is at most the length
\* of the container stack; the containers from slot continued on are the
\* tentative container, in slot continued while a new container is being
\* tried, and the existing containers that were not continued, so continued
\* is below the length exactly when there is one of these; and
\* exit_containers is called with continued at most the length.
C35_ContinuedBounded ==
    (pc \notin {"DocumentStart", "panic"}) =>
        LET stack == doc.document_container_stack
            continued == doc.document_continued
            tentative == pc \in TentativeHandlers
            rest == IF tentative /\ continued < Len(stack)
                    THEN swap_remove(stack, continued) ELSE stack
        IN  /\ 0 <= continued
            /\ continued <= Len(stack)
            /\ tentative => continued < Len(stack)
            /\ [i \in 1..(Len(rest) - continued) |-> rest[continued + i].kind]
                  = Uncontinued
            /\ (continued < Len(stack)) <=> (tentative \/ Uncontinued # <<>>)
            /\ AfterCloses => doc.line.after_continued <= Len(doc.line.stack)

\* A new container is being tried while an existing one was not continued:
\* the tentative container is in slot continued and the existing one after
\* it.
C35_Witness ==
    /\ pc \in NewHandlers
    /\ doc.document_continued = 1
    /\ Len(doc.document_container_stack) = 3
    /\ Len(Uncontinued) = 1

\* All the containers of the line were continued and no new one is tried.
C35_WitnessEqual ==
    /\ pc = "DocumentContainersAfter"
    /\ doc.document_continued = 2
    /\ Len(doc.document_container_stack) = 2
    /\ ExistingContinued = 1

(***************************************************************************)
(* Properties of the stack of the document tokenizer.                      *)
(***************************************************************************)

\* The names of containers on a stack of the tokenizer, bottom to top.
StackNames(stack) == SelectSeq(stack, LAMBDA name : name \in ContainerNames)

\* The kinds of the containers of a container stack.
Kinds(containers) == [i \in 1..Len(containers) |-> containers[i].kind]

\* container_new_after has just run and has called exit_containers(Prefix).
AfterPrefixCloses ==
    /\ pc = "DocumentContainerNewBefore"
    /\ Len(Line) >= 2
    /\ Line[Len(Line) - 1].handler = "DocumentContainerNewAfter"
    /\ Line[Len(Line) - 1].doc.document_continued
          # Len(Line[Len(Line) - 1].doc.document_container_stack) - 1

\* flow_end has just run, and has called exit_containers(After).
AfterAfterCloses ==
    /\ pc = "DocumentContainerExistingBefore"
    /\ Len(Line) = 1
    /\ AfterCloses

\* C36: after exit_containers has run, the BlockQuote and ListItem names on
\* the stack of the document tokenizer are, bottom to top, the kinds of the
\* containers left on the container stack, with the container just opened
\* last in phase Prefix, and none at the end of the input; the name of every
\* container that is closed is found on the stack.
C36_StackMirrorsContainers ==
    /\ panic # "expected to find container event to exit"
    /\ AfterAfterCloses =>
          StackNames(tokenizer.stack) = Kinds(doc.document_container_stack)
    /\ AfterPrefixCloses =>
          StackNames(tokenizer.stack) = Kinds(doc.document_container_stack)
    /\ (pc = "Ok") =>
          /\ StackNames(doc.line.closed[1].stack) = <<>>
          /\ doc.document_container_stack = <<>>

\* exit_containers(Prefix) has closed a list item under a block quote that
\* was continued, and a new block quote is open in its place.
C36_Witness ==
    /\ AfterPrefixCloses
    /\ Kinds(doc.document_container_stack) = <<"BlockQuote", "BlockQuote">>
    /\ Kinds(Existing) = <<"BlockQuote", "ListItem">>

\* exit_containers(After) has closed a container that was not continued.
C36_WitnessAfter ==
    /\ AfterAfterCloses
    /\ Len(doc.document_container_stack) < Len(doc.line.stack)

(***************************************************************************)
(* Properties of the Data of the lines.                                    *)
(***************************************************************************)

\* The codes from index `from` up to index `to`, not included.
CodesBetween(from, to) == SubSeq(codes, from + 1, to)

HasLineFeed(cs) == \E i \in 1..Len(cs) : cs[i] = "LF"

\* C37: every Data of the driver spans at least one code: its Enter is not
\* at the end of the input, its Exit comes after a code was consumed, so
\* exit never fails with "expected non-empty token"; and the span holds no
\* line feed but its last code, and ends with a line feed or at the end of
\* the input.
C37_DataNotEmpty ==
    /\ panic # "expected non-empty token"
    /\ (InDocument /\ pc \notin {"Ok", "panic"}) =>
          LET events == tokenizer.events
              datas == DataEnters(events)
          IN  \A n \in 1..Len(datas) :
                 LET first == events[datas[n] + 1]
                     open == datas[n] + 1 = Len(events)
                     end == IF open THEN tokenizer.index
                            ELSE events[datas[n] + 2].index
                 IN  /\ first.index < Len(codes)
                     /\ ~open =>
                           /\ events[datas[n] + 2].token_type = "Data"
                           /\ events[datas[n] + 2].event_type = "Exit"
                           /\ end > first.index
                           /\ codes[end] = "LF" \/ end = Len(codes)
                     /\ open => pc = "DocumentFlowInside"
                     /\ ~HasLineFeed(CodesBetween(first.index, end - 1))
                     /\ open => ~HasLineFeed(CodesBetween(first.index, end))

\* A Data that ends with the line feed of its line and one that ends at the
\* end of the input, and a line that starts at the end of the input and has
\* no Data.
C37_Witness ==
    /\ InDocument /\ pc = "DocumentFlowEnd"
    /\ Current = "None"
    /\ LET datas == DataEnters(tokenizer.events)
       IN  /\ Len(datas) = 2
           /\ tokenizer.events[datas[1] + 2].index
                 > tokenizer.events[datas[1] + 1].index + 1
           /\ codes[tokenizer.events[datas[1] + 2].index] = "LF"
           /\ tokenizer.events[datas[2] + 2].index = Len(codes)
           /\ codes[Len(codes)] # "LF"

\* The flow of the second line starts at the end of the input, after the
\* prefix of a container: no Data is entered for it.
C37_WitnessEof ==
    /\ InDocument /\ pc = "DocumentFlowEnd"
    /\ Len(doc.log) >= 1
    /\ doc.log[Len(doc.log)].handler = "DocumentContainersAfter"
    /\ Len(DataEnters(tokenizer.events)) = 1
    /\ Len(doc.document_exits) = 1
    /\ tokenizer.index = Len(codes)

(***************************************************************************)
(* Properties of the skips over events.                                    *)
(***************************************************************************)

\* skip::opt_back has returned from a call with an index below the length.
OptBackDone ==
    /\ pc = "Skipped" /\ doc.state = "opt" /\ ~doc.forward
    /\ doc.index < Len(doc.events)

\* C38 as stated: from every index below the length of a well-nested list,
\* opt_back returns an index between 0 and the length less one, and its
\* index never goes below 0.
C38_OptBackInRange ==
    OptBackDone =>
        /\ doc.result[1] >= 0
        /\ doc.result[1] <= Len(doc.events) - 1

\* No span of the list holds another: every Enter is followed by its Exit.
Flat(events) ==
    \A i \in 1..Len(events) :
        events[i].event_type = (IF i % 2 = 1 THEN "Enter" ELSE "Exit")

\* From the Exit that ends a run of spans that are skipped, in a list of
\* spans that hold no other, opt_back returns the index of the last event
\* before the run; when the run starts at event 0 the index goes below 0.
C38_OptBackOverRun ==
    (/\ OptBackDone
     /\ Flat(doc.events)
     /\ doc.events[doc.index + 1].event_type = "Exit"
     /\ doc.events[doc.index + 1].token_type \in doc.token_types) =>
        LET before == {i \in 0..doc.index :
                          doc.events[i + 1].token_type \notin doc.token_types}
        IN  /\ before = {} => doc.result[1] = -1
            /\ before # {} => doc.result[1] = CHOOSE i \in before :
                                                 \A j \in before : j <= i

\* opt_back has skipped two LineEnding spans back to a Paragraph.
C38_OptBackSkipped ==
    /\ OptBackDone
    /\ doc.token_types = {"LineEnding"}
    /\ doc.index = 5
    /\ doc.result = <<1>>
    /\ doc.events[2].token_type = "Paragraph"

\* skip::opt has returned from a call at an Enter or at the length.
OptDone ==
    /\ pc = "Skipped" /\ doc.state = "opt" /\ doc.forward
    /\ \/ doc.index = Len(doc.events)
       \/ doc.events[doc.index + 1].event_type = "Enter"

\* The 0-based index of the Exit of the span entered at `index`: the first
\* event after it at which as many tokens were exited as entered.
SpanExit(events, index) ==
    LET depth(j) ==
            Cardinality({k \in (index + 1)..(j + 1) : events[k].event_type = "Enter"})
            - Cardinality({k \in (index + 1)..(j + 1) : events[k].event_type = "Exit"})
    IN  CHOOSE j \in index..(Len(events) - 1) :
            /\ depth(j) = 0
            /\ \A k \in index..(j - 1) : depth(k) > 0

\* The index after the spans of the types `token_types` that follow one
\* another from the Enter at `index`, each with all it holds.
RECURSIVE AfterSpans(_, _, _)
AfterSpans(events, index, token_types) ==
    IF index >= Len(events) THEN index
    ELSE IF events[index + 1].token_type \notin token_types THEN index
    ELSE IF events[index + 1].event_type = "Exit" THEN index
    ELSE AfterSpans(events, SpanExit(events, index) + 1, token_types)

\* C39 as stated: from an Enter of a well-nested list, or from its length,
\* opt returns the index after the spans of the given types that follow one
\* another from there, each stepped over whole with what it holds: the
\* length or the index of an event that is not of these types; the start
\* when the event there is not of these types; and opt of the result is the
\* result.
C39_OptSkipsWholeSpans ==
    OptDone =>
        /\ doc.result[1] = AfterSpans(doc.events, doc.index, doc.token_types)
        /\ (doc.index < Len(doc.events)
            /\ doc.events[doc.index + 1].token_type \notin doc.token_types)
              => doc.result[1] = doc.index
        /\ opt(doc.events, doc.result[1], doc.token_types) = doc.result[1]

\* No span of a skipped type holds a span of its own type.
NoneInsideItself(events, token_types) ==
    \A i \in 1..Len(events) :
        (events[i].event_type = "Enter" /\ events[i].token_type \in token_types) =>
            \A k \in (i + 1)..SpanExit(events, i - 1) :
                events[k].token_type # events[i].token_type

\* The spans stepped over from `index` end at the length or before an event
\* that is not of the types skipped, and not before the Exit of a span of
\* such a type that holds them.
EndsOutside(events, index, token_types) ==
    LET j == AfterSpans(events, index, token_types)
    IN  j < Len(events) => events[j + 1].token_type \notin token_types

\* Where no span of a skipped type holds a span of its own type, and the
\* spans stepped over are not the last in a span of a skipped type, opt does
\* step over whole spans; and wherever it returns an index, opt of the
\* result is the result.
C39_OptSkipsSpansNotInsideThemselves ==
    OptDone =>
        /\ (/\ NoneInsideItself(doc.events, doc.token_types)
            /\ EndsOutside(doc.events, doc.index, doc.token_types)) =>
              doc.result[1] = AfterSpans(doc.events, doc.index, doc.token_types)
        /\ doc.result[1] >= 0 =>
              /\ doc.result[1] >= doc.index
              /\ opt(doc.events, doc.result[1], doc.token_types) = doc.result[1]

\* opt has stepped over a LineEnding and a Paragraph that holds a
\* LineEnding, up to the length.
C39_OptSkipped ==
    /\ OptDone
    /\ doc.index = 0
    /\ doc.result = <<6>>
    /\ doc.token_types = {"LineEnding", "Paragraph"}
    /\ doc.events[3].token_type = "Paragraph"
    /\ doc.events[4].token_type = "LineEnding"
    /\ NoneInsideItself(doc.events, doc.token_types)

(***************************************************************************)
(* Properties of the exits in the final list of events.                    *)
(***************************************************************************)

\* The token types of events.
TokenTypes(events) == [i \in 1..Len(events) |-> events[i].token_type]

\* How many line endings the child has made.
ChildLineEndings ==
    Cardinality({j \in 1..Len(doc.line.closed[1].child_events) :
                    IsLineEnding(doc.line.closed[1].child_events[j])})

\* C40: when the driver returns Ok, the Exit events of containers in the
\* final list are the exits exit_containers kept in document_exits, each
\* once and slot after slot, every slot is empty, and there are as many Exit
\* as Enter events of containers; also when the child has made fewer line
\* endings than there are slots with exits.
C40_NoExitLost ==
    (InDocument /\ pc = "Ok") =>
        LET closed == doc.line.closed[1]
            events == tokenizer.events
        IN  /\ TokenTypes(ContainerEvents(events, "Exit")) = Deferred(closed.exits)
            /\ \A n \in 1..Len(doc.document_exits) : doc.document_exits[n] = <<>>
            /\ Len(doc.document_exits) = Len(closed.exits)
            /\ Len(ContainerEvents(events, "Exit"))
                  = Len(ContainerEvents(events, "Enter"))

\* The document ended with exits in two slots and one line ending of the
\* child: the exits of the first slot were added at the line ending, those
\* of the second at the end.
C40_Witness ==
    /\ InDocument /\ pc = "Ok"
    /\ Len(doc.line.closed[1].exits) = 2
    /\ doc.line.closed[1].exits[1] # <<>>
    /\ doc.line.closed[1].exits[2] # <<>>
    /\ ChildLineEndings = 1
    /\ Len(ContainerEvents(tokenizer.events, "Exit")) = 2

====
